---- MODULE Spec2Model ----
(***************************************************************************)
(* A model of pyarcrest's ARC CE REST client (src/src/pyarcrest/arc.py)    *)
(* and of its HTTP client (src/src/pyarcrest/http.py): the download engine *)
(* with its TransferQueue (lock + queue + cyclic barrier), the upload      *)
(* engine, submitJobs, the delegation lifecycle, matchJob, getClient, the  *)
(* job management operations and HTTPClient.request.  Every subsystem has  *)
(* its own specification over its own group of variables.                  *)
(***************************************************************************)
EXTENDS Integers, Sequences, FiniteSets, TLC

(***************************************************************************)
(* Bounds of the model.                                                    *)
(***************************************************************************)
MaxWorkers == 2         \* download workers
MaxFiles == 1           \* files in the session root
MaxFailures == 1        \* failing remote calls in one downloadJobFiles call
MaxUpWorkers == 2       \* the workers argument of uploadJobFiles
MaxInputs == 3          \* local inputs of one job
MaxDescs == 2           \* job descriptions in one submitJobs call
MaxDelegCalls == 2      \* createDelegation / refreshDelegation calls in a row
MaxShares == 2          \* ComputingShare entries of the CE info document
MaxVersions == 2        \* API versions the CE advertises
MaxJobs == 2            \* job ids given to one management operation

\* numbers of sub-directories of the session root, of files in a
\* sub-directory, and of diagnose files
SubDirCounts == {0, 1}
SubFileCounts == {0, 1}

\* numbers of files in the session root of each job of a call for two jobs
SessionFileCounts == {0, 1}
DiagCounts == {0, 1}

VARIABLES
    \* ---- download engine (downloadJobFiles, TransferQueue) ----
    numWorkers,     \* the workers argument of downloadJobFiles
    remote,         \* the remote session directory: [rf, sd, sf]
    queue,          \* TransferQueue.queue
    bstate,         \* threading.Barrier._state: 0 filling, 1 draining, -1 resetting
    bcount,         \* threading.Barrier._count
    pc,             \* position of every download worker
    transfer,       \* the transfer a worker has claimed
    pending,        \* children of a listing the worker has still to put
    errorQueue,     \* errorQueue of downloadJobFiles
    failures,       \* number of remote calls that have failed so far
    putLog,         \* every transfer ever put into the TransferQueue
    claimLog,       \* how many times get() has returned each transfer
    outputFilters,  \* argument outputFilters: the filter patterns of each job
    downloadLog,    \* the replies of the CE to the downloads so far
    dlCancelEvent,  \* the cancelEvent made by downloadJobFiles for each job
    dlJobids,       \* argument jobids
    diagnoseFiles,  \* argument diagnoseFiles: the diagnose file names of each job
    dlResultDict,   \* resultDict of downloadJobFiles
    dlMain,         \* the thread that called downloadJobFiles: "wait", "merge", "returned"
    dlReturn,       \* the list downloadJobFiles returns
    \* ---- upload engine (uploadJobFiles) ----
    upWorkers,      \* numWorkers = min(uploadQueue.qsize(), workers)
    uploadQueue,    \* uploadQueue
    upPc,           \* position of every upload worker
    upload,         \* the transfer an upload worker has claimed
    cancelEvent,    \* the cancelEvent shared by the transfers of one job
    upErrorQueue,   \* errorQueue of uploadJobFiles
    upResultDict,   \* resultDict of uploadJobFiles
    uploadFileLog,  \* the transfers passed to restClient.uploadFile
    skipLog,        \* the transfers claimed and skipped as cancelled
    jobInputs,      \* argument jobInputs: the inputFiles dict of every job
    uploadFailLog,  \* the transfers whose restClient.uploadFile raised
    upMain,         \* the thread that called uploadJobFiles: "wait", "merge", "returned"
    upReturn,       \* the list uploadJobFiles returns
    \* ---- submitJobs ----
    descs,          \* the job descriptions: what parse, matchJob, UnParse do
    matchDescs,     \* argument matchDescs
    uploadData,     \* argument uploadData
    delegationID,   \* argument delegationID ("" when not given)
    sjPc,           \* position in _submitJobs
    sjI,            \* the loop variable i, from 1
    tosubmit,       \* tosubmit: the indexes of the descriptions to submit
    bulkdesc,       \* bulkdesc: the descriptions of the bulk document
    resultDict,     \* resultDict
    sjReturn,       \* the list _submitJobs returns
    sjError,        \* the call that raised out of _submitJobs
    sjCalls,        \* the calls _submitJobs has made
    \* ---- createDelegation, refreshDelegation ----
    token,          \* self.token is set (bearer token credentials)
    dgCalls,        \* number of calls made so far
    dgOp,           \* the call in progress: "create" or "refresh"
    dgPc,           \* position in the call
    dgID,           \* delegationID of the call ("" before newDelegation returns)
    dgRequests,     \* the requests of the call so far: action, id, success, headers
    dgReturn,       \* the delegation id createDelegation returned ("" if none)
    dgRaised,       \* the error the call raised ("" if none)
    dgFailure,      \* the sign or upload failure being handled ("" if none)
    delegations,    \* the CE: the state of every delegation id
    \* ---- matchJob ----
    ceInfo,         \* argument ceInfo: the shares and environments of the CE
    mmQueue,        \* argument queue ("" when not given)
    mmRuntimes,     \* argument runtimes
    mmWalltime,     \* argument walltime (-1 when None)
    mmPc,           \* "call" before matchJob runs, "done" after
    mmErrors,       \* the list matchJob returns
    \* ---- getClient ----
    gcDocument,     \* the CE: status and "version" value of GET /rest
    gcVersion,      \* argument version ("" when None)
    gcImpls,        \* argument impls (the versions it maps; {} when None)
    gcPc,           \* "call", "select", "returned" or "raised"
    gcApiVersions,  \* local apiVersions
    gcClient,       \* the version of the client returned ("" when none)
    gcRaised,        \* the error raised ("" when none)
    \* ---- job management operations ----
    mjJobs,         \* argument jobs
    mjAction,       \* the operation: info, status, kill, clean, restart, delegations
    mjAnswer,       \* the CE: status and "job" value of the answer to POST /jobs
    mjPc,           \* "call", "responses", "returned" or "raised"
    mjResponses,    \* the list _manageJobs returns
    mjResults,      \* the list the operation returns
    mjRaised,       \* the error raised ("" when none)
    \* ---- HTTPClient.request ----
    hrArgs,         \* arguments method, token and jsonData of the call
    hrPc,           \* "call", "retry", "returned" or "raised"
    hrAttempts,     \* the requests sent on the connection, with what came of each
    hrClosed,       \* self.close() has been called
    hrRaised,       \* the error raised ("" when none)
    \* ---- the headers of the requests of all clients ----
    hdDefaults,     \* the dict of the default headers={} of each function
    hdSent          \* the last call and the headers it sent

dlVars == <<numWorkers, remote, queue, bstate, bcount, pc, transfer, pending,
            errorQueue, failures, putLog, claimLog, outputFilters,
            downloadLog, dlCancelEvent, dlJobids, diagnoseFiles, dlResultDict,
            dlMain, dlReturn>>

\* the variables of the thread that called downloadJobFiles
dlMainVars == <<dlJobids, diagnoseFiles, dlResultDict, dlMain, dlReturn>>

upVars == <<upWorkers, uploadQueue, upPc, upload, cancelEvent, upErrorQueue,
            upResultDict, uploadFileLog, skipLog, jobInputs, uploadFailLog,
            upMain, upReturn>>

sjVars == <<descs, matchDescs, uploadData, delegationID, sjPc, sjI, tosubmit,
            bulkdesc, resultDict, sjReturn, sjError, sjCalls>>

dgVars == <<token, dgCalls, dgOp, dgPc, dgID, dgRequests, dgRaised, dgFailure,
            delegations, dgReturn>>

mmVars == <<ceInfo, mmQueue, mmRuntimes, mmWalltime, mmPc, mmErrors>>

gcVars == <<gcDocument, gcVersion, gcImpls, gcPc, gcApiVersions, gcClient,
            gcRaised>>

mjVars == <<mjJobs, mjAction, mjAnswer, mjPc, mjResponses, mjResults, mjRaised>>

hrVars == <<hrArgs, hrPc, hrAttempts, hrClosed, hrRaised, hdDefaults, hdSent>>

vars == <<dlVars, upVars, sjVars, dgVars, mmVars, gcVars, mjVars, hrVars>>

\* what each subsystem leaves alone
dlOthers == <<upVars, sjVars, dgVars, mmVars, gcVars, mjVars, hrVars>>
upOthers == <<dlVars, sjVars, dgVars, mmVars, gcVars, mjVars, hrVars>>
sjOthers == <<dlVars, upVars, dgVars, mmVars, gcVars, mjVars, hrVars>>
dgOthers == <<dlVars, upVars, sjVars, mmVars, gcVars, mjVars, hrVars>>
mmOthers == <<dlVars, upVars, sjVars, dgVars, gcVars, mjVars, hrVars>>
gcOthers == <<dlVars, upVars, sjVars, dgVars, mmVars, mjVars, hrVars>>
mjOthers == <<dlVars, upVars, sjVars, dgVars, mmVars, gcVars, hrVars>>
hrOthers == <<dlVars, upVars, sjVars, dgVars, mmVars, gcVars, mjVars>>

(***************************************************************************)
(* Download engine.                                                        *)
(***************************************************************************)
WorkerIds == 1..MaxWorkers
Workers == 1..numWorkers

\* the jobs a call of downloadJobFiles can be given
DlJobs == {"A", "B"}

NoTransfer == [jobid |-> "", name |-> <<>>, type |-> "none"]

\* class Transfer: jobid, name (session relative, a sequence of path
\* components), type.  The local path is determined by jobid and name and
\* the cancel event by jobid.
Transfer(jobid, name, type) == [jobid |-> jobid, name |-> name, type |-> type]

\* The listing document the CE returns for a session directory.
RemoteListing(name) ==
    IF name = <<>>
    THEN [file |-> [i \in 1..remote.rf |-> <<"f", i>>],
          dirs |-> [j \in 1..remote.sd |-> <<"d", j>>]]
    ELSE IF Len(name) = 1 /\ name[1][1] = "d"
    THEN [file |-> [i \in 1..remote.sf |-> <<"f", i>>], dirs |-> <<>>]
    ELSE [file |-> <<>>, dirs |-> <<>>]

\* outputFilters.get(jobid, [])
OutputFilters(jobid) ==
    IF jobid \in DOMAIN outputFilters THEN outputFilters[jobid] ELSE <<>>

\* str.startswith for a pattern that ends in "/": the pattern's components
\* are the first components of the name.  The bare pattern "/" (no
\* component) is the prefix of no session relative name.
StartsWith(name, pattern) ==
    /\ pattern.path # <<>>
    /\ Len(name) > Len(pattern.path)
    /\ SubSeq(name, 1, Len(pattern.path)) = pattern.path

\* A filter pattern is [path |-> components, slash |-> ends in "/"].
FilterOutFile(filters, name) ==
    IF filters = <<>> THEN FALSE
    ELSE ~ \E k \in 1..Len(filters) :
            \/ (~filters[k].slash /\ filters[k].path = name)
            \/ (filters[k].slash /\ StartsWith(name, filters[k]))
            \/ (filters[k].slash /\ filters[k].path = <<>>)

FilterOutListingAsFile(filters, name) == FilterOutFile(filters, name)
FilterOutListing(filters, name) ==
    IF filters = <<>> THEN FALSE
    ELSE ~ \E k \in 1..Len(filters) :
            \/ (~filters[k].slash /\ filters[k].path = name)
            \/ (filters[k].slash /\ filters[k].path = name /\ name # <<>>)
            \/ (filters[k].slash /\ StartsWith(name, filters[k]))

SelectSeqByUnfiltered(jobid, name, entries, type, filters) ==
    [k \in 1..Len(entries) |-> Transfer(jobid, Append(name, entries[k]), type)]

RECURSIVE SelectSeqBy(_, _, _, _, _)
\* the transfers one loop of _addTransfersFromListing puts, in order
SelectSeqBy(jobid, name, entries, type, filters) ==
    IF entries = <<>> THEN <<>>
    ELSE LET newname == Append(name, Head(entries))
             out == IF type = "file" THEN FilterOutFile(filters, newname)
                    ELSE FilterOutListing(filters, newname)
             rest == SelectSeqBy(jobid, name, Tail(entries), type, filters)
         IN IF out THEN rest ELSE <<Transfer(jobid, newname, type)>> \o rest

\* _addTransfersFromListing: the file transfers, then the listing transfers
TransfersFromListing(jobid, filters, listing, name) ==
    SelectSeqBy(jobid, name, listing.file, "file", filters)
        \o SelectSeqBy(jobid, name, listing.dirs, "listing", filters)

\* the seeding loop of downloadJobFiles: the diagnose transfers, then the
\* listing of the session root
SeedTransfers(jobid, ndiag) ==
    [i \in 1..ndiag |-> Transfer(jobid, <<<<"g", i>>>>, "diagnose")]
        \o <<Transfer(jobid, <<>>, "listing")>>

\* threading.Barrier(numWorkers)
PartiesOffByOne(n) == n - 1
Parties(n) == n

\* Barrier._exit, after _count was decremented to c
BarrierExit(c, s) == IF c = 0 /\ s \in {-1, 1} THEN 0 ELSE s

\* Barrier.reset
BarrierResetIgnored(c, s) == s
BarrierReset(c, s) == IF c > 0 THEN (IF s = 0 THEN -1 ELSE s) ELSE 0

\* the diagnose file lists of a job: names of ARCRest.DIAGNOSE_FILES, or a
\* list with a name that is not one of them
DiagnoseList(n) == [i \in 1..n |-> <<"g", i>>]
DiagnoseLists ==
    {DiagnoseList(n) : n \in DiagCounts}
        \cup {<<<<"x", 1>>>>, <<<<"g", 1>>, <<"x", 1>>>>}

\* _addDiagnoseTransfers raises ARCError: a name is not in DIAGNOSE_FILES
DiagnoseError(list) == \E i \in 1..Len(list) : list[i][1] # "g"

\* the seeding loop of downloadJobFiles over jobids, from position k: a job
\* whose diagnose transfers cannot be made gets no transfer at all
RECURSIVE SeedQueue(_, _, _)
SeedQueueWithEveryListing(jobids, diag, k) ==
    LET rest[i \in k..(Len(jobids) + 1)] ==
            IF i > Len(jobids) THEN <<>>
            ELSE (IF DiagnoseError(diag[jobids[i]])
                  THEN <<Transfer(jobids[i], <<>>, "listing")>>
                  ELSE SeedTransfers(jobids[i], Len(diag[jobids[i]])))
                    \o rest[i + 1]
    IN  rest[k]
SeedQueue(jobids, diag, k) ==
    IF k > Len(jobids) THEN <<>>
    ELSE (IF DiagnoseError(diag[jobids[k]]) THEN <<>>
          ELSE SeedTransfers(jobids[k], Len(diag[jobids[k]])))
            \o SeedQueue(jobids, diag, k + 1)

\* resultDict after the seeding loop
SeedResults(jobids, diag) ==
    [j \in {jobids[k] : k \in 1..Len(jobids)} |->
        IF DiagnoseError(diag[j]) THEN <<"ARCError">> ELSE <<>>]

DlInit ==
    /\ numWorkers \in 1..MaxWorkers
    /\ remote \in [rf : 0..MaxFiles, sd : SubDirCounts, sf : SubFileCounts]
    /\ dlJobids = <<"A">>
    /\ \E ndiag \in DiagCounts :
          /\ diagnoseFiles = [j \in DlJobs |-> DiagnoseList(ndiag)]
          /\ queue = SeedTransfers("A", ndiag)
          /\ putLog = {SeedTransfers("A", ndiag)[i] : i \in 1..(ndiag + 1)}
    /\ dlResultDict = SeedResults(dlJobids, diagnoseFiles)
    /\ dlMain = "wait"
    /\ dlReturn = <<>>
    /\ bstate = 0
    /\ bcount = 0
    /\ pc = [w \in WorkerIds |-> IF w <= numWorkers THEN "get" ELSE "off"]
    /\ transfer = [w \in WorkerIds |-> NoTransfer]
    /\ pending = [w \in WorkerIds |-> <<>>]
    /\ errorQueue = {}
    /\ failures = 0
    /\ claimLog = <<>>
    /\ outputFilters = <<>>
    /\ downloadLog = {}
    /\ dlCancelEvent = [j \in DlJobs |-> FALSE]

\* the filter patterns: f1, d1/, d1, d1/f1 and /
FilterPatterns ==
    {[path |-> <<<<"f", 1>>>>, slash |-> FALSE],
     [path |-> <<<<"d", 1>>>>, slash |-> TRUE],
     [path |-> <<<<"d", 1>>>>, slash |-> FALSE],
     [path |-> <<<<"d", 1>>, <<"f", 1>>>>, slash |-> FALSE],
     [path |-> <<>>, slash |-> TRUE]}

\* the non-empty filter lists of a job
FilterLists == UNION {[1..n -> FilterPatterns] : n \in {1, 2}}

\* downloadJobFiles up to the start of the worker threads, for a job with
\* output filters and a session directory with a sub-directory
DlFilterInit ==
    /\ numWorkers \in 1..MaxWorkers
    /\ remote \in [rf : 0..MaxFiles, sd : {1}, sf : SubFileCounts]
    /\ dlJobids = <<"A">>
    /\ diagnoseFiles = [j \in DlJobs |-> DiagnoseList(0)]
    /\ dlResultDict = SeedResults(dlJobids, diagnoseFiles)
    /\ dlMain = "wait"
    /\ dlReturn = <<>>
    /\ outputFilters \in {[j \in {"A"} |-> l] : l \in FilterLists}
    /\ queue = SeedTransfers("A", 0)
    /\ putLog = {SeedTransfers("A", 0)[1]}
    /\ bstate = 0
    /\ bcount = 0
    /\ pc = [w \in WorkerIds |-> IF w <= numWorkers THEN "get" ELSE "off"]
    /\ transfer = [w \in WorkerIds |-> NoTransfer]
    /\ pending = [w \in WorkerIds |-> <<>>]
    /\ errorQueue = {}
    /\ failures = 0
    /\ claimLog = <<>>
    /\ downloadLog = {}
    /\ dlCancelEvent = [j \in DlJobs |-> FALSE]

\* downloadJobFiles up to the start of the worker threads, for two jobs
\* with a session directory without sub-directories
DlJobsInit ==
    /\ numWorkers \in 1..MaxWorkers
    /\ remote \in [rf : SessionFileCounts, sd : {0}, sf : {0}]
    /\ dlJobids = <<"A", "B">>
    /\ diagnoseFiles \in [DlJobs -> DiagnoseLists]
    /\ queue = SeedQueue(dlJobids, diagnoseFiles, 1)
    /\ putLog = {queue[i] : i \in 1..Len(queue)}
    /\ dlResultDict = SeedResults(dlJobids, diagnoseFiles)
    /\ dlMain = "wait"
    /\ dlReturn = <<>>
    /\ bstate = 0
    /\ bcount = 0
    /\ pc = [w \in WorkerIds |-> IF w <= numWorkers THEN "get" ELSE "off"]
    /\ transfer = [w \in WorkerIds |-> NoTransfer]
    /\ pending = [w \in WorkerIds |-> <<>>]
    /\ errorQueue = {}
    /\ failures = 0
    /\ claimLog = <<>>
    /\ outputFilters = <<>>
    /\ downloadLog = {}
    /\ dlCancelEvent = [j \in DlJobs |-> FALSE]

\* claimLog after one more claim of transfer t
Claim(log, t) ==
    IF t \in DOMAIN log THEN [log EXCEPT ![t] = @ + 1] ELSE log @@ (t :> 1)

\* queue.get() inside TransferQueue.get: the queue without its head
QueuePeeked(q) == q
QueuePopped(q) == Tail(q)

\* TransferQueue.get, the block under the lock: take the head of the queue,
\* or find the queue empty and go on to the barrier
QueueGet(w) ==
    /\ pc[w] = "get"
    /\ UNCHANGED dlOthers
    /\ UNCHANGED dlMainVars
    /\ UNCHANGED <<outputFilters, downloadLog, dlCancelEvent>>
    /\ IF queue # <<>>
       THEN /\ transfer' = [transfer EXCEPT ![w] = Head(queue)]
            /\ queue' = QueuePopped(queue)
            /\ claimLog' = Claim(claimLog, Head(queue))
            /\ pc' = [pc EXCEPT ![w] = "claimed"]
       ELSE /\ pc' = [pc EXCEPT ![w] = "barrier"]
            /\ UNCHANGED <<transfer, queue, claimLog>>
    /\ UNCHANGED <<numWorkers, remote, bstate, bcount, pending, errorQueue,
                   failures, putLog>>

\* TransferQueue.get, barrier.wait() up to the point where the thread
\* either releases the barrier or blocks in it.  _enter blocks while the
\* barrier drains or resets.
BarrierArrive(w) ==
    /\ pc[w] = "barrier"
    /\ bstate = 0
    /\ UNCHANGED dlOthers
    /\ UNCHANGED dlMainVars
    /\ UNCHANGED <<outputFilters, downloadLog, dlCancelEvent>>
    /\ IF bcount + 1 = Parties(numWorkers)
       THEN \* _release, then the finally clause; get raises TransferQueueEmpty
            /\ bstate' = BarrierExit(bcount, 1)
            /\ bcount' = bcount
            /\ pc' = [pc EXCEPT ![w] = "done"]
       ELSE /\ bcount' = bcount + 1
            /\ bstate' = bstate
            /\ pc' = [pc EXCEPT ![w] = "waiting"]
    /\ UNCHANGED <<numWorkers, remote, queue, transfer, pending, errorQueue,
                   failures, putLog, claimLog>>

\* the position of a worker that wakes up in Barrier._wait with state s
AfterWaitRetry(s) == "get"
AfterWait(s) == IF s < 0 THEN "get" ELSE "done"

\* TransferQueue.get, the thread wakes up in Barrier._wait: the barrier
\* was reset (BrokenBarrierError: get continues its loop) or released
\* (get raises TransferQueueEmpty)
BarrierWake(w) ==
    /\ pc[w] = "waiting"
    /\ bstate # 0
    /\ UNCHANGED dlOthers
    /\ UNCHANGED dlMainVars
    /\ UNCHANGED <<outputFilters, downloadLog, dlCancelEvent>>
    /\ bcount' = bcount - 1
    /\ bstate' = BarrierExit(bcount - 1, bstate)
    /\ pc' = [pc EXCEPT ![w] = AfterWait(bstate)]
    /\ UNCHANGED <<numWorkers, remote, queue, transfer, pending, errorQueue,
                   failures, putLog, claimLog>>

\* the error put into errorQueue for a failed file or diagnose download:
\* status 404 becomes the missing file error of the type, any other
\* exception is put as it is
DownloadErrorUnchanged(type, outcome) == "error"
DownloadError(type, outcome) ==
    IF outcome = "404"
    THEN (IF type = "file" THEN "MissingOutputFile" ELSE "MissingDiagnoseFile")
    ELSE "error"

\* if transfer.cancelEvent.is_set(): continue.  No statement of the download
\* worker sets the event, so the test is taken together with the step that
\* follows it.
SkipDownload(ev, jobid) == ev[jobid]

\* the except clauses of _downloadTransferWorker end the iteration: where
\* the worker is after exception exc was put into errorQueue
AfterExceptionRaised(exc) == "raised"
AfterExceptionBreak(exc) == "done"
AfterException(exc) == "get"

\* _downloadTransferWorker with a claimed file or diagnose transfer: it is
\* skipped as cancelled, or the download succeeds, or fails with 404 or with
\* another error
DownloadLeaf(w) ==
    /\ pc[w] = "claimed"
    /\ UNCHANGED dlOthers
    /\ UNCHANGED dlMainVars
    /\ UNCHANGED <<outputFilters, dlCancelEvent>>
    /\ transfer[w].type \in {"file", "diagnose"}
    /\ IF SkipDownload(dlCancelEvent, transfer[w].jobid)
       THEN /\ pc' = [pc EXCEPT ![w] = "get"]
            /\ UNCHANGED <<errorQueue, failures, downloadLog>>
       ELSE \E outcome \in {"ok", "404", "error"} :
          /\ outcome # "ok" => failures < MaxFailures
          /\ pc' = [pc EXCEPT ![w] =
                IF outcome = "ok" THEN "get" ELSE AfterException(outcome)]
          /\ errorQueue' =
                IF outcome = "ok" THEN errorQueue
                ELSE errorQueue \cup
                     {[jobid |-> transfer[w].jobid, name |-> transfer[w].name,
                       error |-> DownloadError(transfer[w].type, outcome)]}
          /\ failures' = IF outcome = "ok" THEN failures ELSE failures + 1
          /\ downloadLog' = downloadLog \cup
                {[jobid |-> transfer[w].jobid, name |-> transfer[w].name,
                  type |-> transfer[w].type, reply |-> outcome]}
    /\ transfer' = [transfer EXCEPT ![w] = NoTransfer]
    /\ UNCHANGED <<numWorkers, remote, queue, bstate, bcount, pending, putLog,
                   claimLog>>

\* _downloadTransferWorker with a claimed listing transfer: it is skipped as
\* cancelled, or downloadListing fails ("error"), or it returns a document
\* that is no JSON object, on which _addTransfersFromListing raises at once
\* ("malformed", handled by the outer except clause), or it returns the
\* listing whose transfers are then put one by one
DownloadListing(w) ==
    /\ pc[w] = "claimed"
    /\ UNCHANGED dlOthers
    /\ UNCHANGED dlMainVars
    /\ UNCHANGED <<outputFilters, dlCancelEvent>>
    /\ transfer[w].type = "listing"
    /\ IF SkipDownload(dlCancelEvent, transfer[w].jobid)
       THEN /\ pc' = [pc EXCEPT ![w] = "get"]
            /\ transfer' = [transfer EXCEPT ![w] = NoTransfer]
            /\ UNCHANGED <<pending, errorQueue, failures, downloadLog>>
       ELSE \E reply \in {"ok", "error", "malformed"} :
          /\ reply # "ok" => failures < MaxFailures
          /\ downloadLog' = downloadLog \cup
                {[jobid |-> transfer[w].jobid, name |-> transfer[w].name,
                  type |-> "listing", reply |-> reply]}
          /\ IF reply = "ok"
             THEN /\ pending' = [pending EXCEPT ![w] =
                        TransfersFromListing(transfer[w].jobid,
                            OutputFilters(transfer[w].jobid),
                            RemoteListing(transfer[w].name), transfer[w].name)]
                  /\ pc' = [pc EXCEPT ![w] = "adding"]
                  /\ UNCHANGED <<errorQueue, failures, transfer>>
             ELSE /\ errorQueue' = errorQueue \cup
                        {[jobid |-> transfer[w].jobid, name |-> transfer[w].name,
                          error |-> IF reply = "error" THEN "error"
                                    ELSE "Exception"]}
                  /\ failures' = failures + 1
                  /\ pc' = [pc EXCEPT ![w] = AfterException(reply)]
                  /\ transfer' = [transfer EXCEPT ![w] = NoTransfer]
                  /\ UNCHANGED pending
    /\ UNCHANGED <<numWorkers, remote, queue, bstate, bcount, putLog, claimLog>>

\* TransferQueue.put, called from _addTransfersFromListing: under the lock,
\* queue.put(val) and barrier.reset()
QueuePut(w) ==
    /\ pc[w] = "adding"
    /\ pending[w] # <<>>
    /\ UNCHANGED dlOthers
    /\ UNCHANGED dlMainVars
    /\ UNCHANGED <<outputFilters, downloadLog, dlCancelEvent>>
    /\ queue' = Append(queue, Head(pending[w]))
    /\ bstate' = BarrierReset(bcount, bstate)
    /\ putLog' = putLog \cup {Head(pending[w])}
    /\ pending' = [pending EXCEPT ![w] = Tail(pending[w])]
    /\ UNCHANGED <<numWorkers, remote, bcount, pc, transfer, errorQueue,
                   failures, claimLog>>

\* _addTransfersFromListing returns: the worker goes back to get()
ListingDone(w) ==
    /\ pc[w] = "adding"
    /\ pending[w] = <<>>
    /\ UNCHANGED dlOthers
    /\ UNCHANGED dlMainVars
    /\ UNCHANGED <<outputFilters, downloadLog, dlCancelEvent>>
    /\ pc' = [pc EXCEPT ![w] = "get"]
    /\ transfer' = [transfer EXCEPT ![w] = NoTransfer]
    /\ UNCHANGED <<numWorkers, remote, queue, bstate, bcount, pending,
                   errorQueue, failures, putLog, claimLog>>

WorkerStep(w) ==
    \/ QueueGet(w)
    \/ BarrierArrive(w)
    \/ BarrierWake(w)
    \/ DownloadLeaf(w)
    \/ DownloadListing(w)
    \/ QueuePut(w)
    \/ ListingDone(w)

\* concurrent.futures.wait(futures) and the end of the with block: every
\* worker has returned
DlWorkersReturnedAny == \E w \in Workers : pc[w] = "done"
DlWorkersReturned == \A w \in Workers : pc[w] = "done"

\* resultDict[error["jobid"]].append(error["error"])
AppendErrorToEveryJob(dict, error) ==
    [j \in DOMAIN dict |-> Append(dict[j], error.error)]
AppendError(dict, error) ==
    [dict EXCEPT ![error.jobid] = Append(@, error.error)]

\* [resultDict[jobid] for jobid in jobids]
JobResultList(dict, jobids) == [k \in 1..Len(jobids) |-> dict[jobids[k]]]

\* one iteration of the loop that gets the transfer errors: an error is
\* taken from errorQueue and appended to the list of its job
DownloadMerge ==
    /\ dlMain \in {"wait", "merge"}
    /\ DlWorkersReturned
    /\ UNCHANGED dlOthers
    /\ \E error \in errorQueue :
          /\ errorQueue' = errorQueue \ {error}
          /\ dlResultDict' = AppendError(dlResultDict, error)
    /\ dlMain' = "merge"
    /\ UNCHANGED <<numWorkers, remote, queue, bstate, bcount, pc, transfer,
                   pending, failures, putLog, claimLog, outputFilters,
                   downloadLog, dlCancelEvent, dlJobids, diagnoseFiles,
                   dlReturn>>

\* downloadJobFiles returns, after every worker has returned and errorQueue
\* is empty
DownloadReturn ==
    /\ dlMain \in {"wait", "merge"}
    /\ DlWorkersReturned
    /\ errorQueue = {}
    /\ UNCHANGED dlOthers
    /\ dlReturn' = JobResultList(dlResultDict, dlJobids)
    /\ dlMain' = "returned"
    /\ UNCHANGED <<numWorkers, remote, queue, bstate, bcount, pc, transfer,
                   pending, errorQueue, failures, putLog, claimLog,
                   outputFilters, downloadLog, dlCancelEvent, dlJobids,
                   diagnoseFiles, dlResultDict>>

DlIdle ==
    /\ numWorkers = 0
    /\ dlJobids = <<>>
    /\ diagnoseFiles = [j \in DlJobs |-> <<>>]
    /\ dlResultDict = <<>>
    /\ dlMain = "off"
    /\ dlReturn = <<>>
    /\ remote = [rf |-> 0, sd |-> 0, sf |-> 0]
    /\ queue = <<>>
    /\ bstate = 0
    /\ bcount = 0
    /\ pc = [w \in WorkerIds |-> "off"]
    /\ transfer = [w \in WorkerIds |-> NoTransfer]
    /\ pending = [w \in WorkerIds |-> <<>>]
    /\ errorQueue = {}
    /\ failures = 0
    /\ putLog = {}
    /\ claimLog = <<>>
    /\ outputFilters = <<>>
    /\ downloadLog = {}
    /\ dlCancelEvent = [j \in DlJobs |-> FALSE]

(***************************************************************************)
(* Upload engine.                                                          *)
(***************************************************************************)
UpWorkerIds == 1..MaxUpWorkers
UpJobIds == <<"A", "B">>
UpJobs == {"A", "B"}

\* _addInputTransfers for a job whose inputFiles dict has the sources
\* inputFiles[1..n], each "local" (an existing local file), "remote" (a URL,
\* not uploaded), "missing" (a local path that is no file) or "unparsable"
\* (isLocalInputFile raises ValueError): the transfers put into the queue,
\* none at all when InputFileError is raised
Sources == {"local", "remote", "missing", "unparsable"}

InputFileError(inputFiles) ==
    \E i \in 1..Len(inputFiles) : inputFiles[i] \in {"missing", "unparsable"}

RECURSIVE LocalTransfers(_, _, _)
LocalTransfers(jobid, inputFiles, i) ==
    IF i > Len(inputFiles) THEN <<>>
    ELSE IF inputFiles[i] = "local"
    THEN <<Transfer(jobid, <<<<"i", i>>>>, "file")>>
            \o LocalTransfers(jobid, inputFiles, i + 1)
    ELSE LocalTransfers(jobid, inputFiles, i + 1)

AddInputTransfersAsValidated(jobid, inputFiles) ==
    LET bad == {i \in 1..Len(inputFiles) :
                    inputFiles[i] \in {"missing", "unparsable"}}
        validated == {i \in 1..Len(inputFiles) : \A b \in bad : i < b}
    IN  LocalTransfers(jobid, SubSeq(inputFiles, 1, Cardinality(validated)), 1)
AddInputTransfers(jobid, inputFiles) ==
    IF InputFileError(inputFiles) THEN <<>>
    ELSE LocalTransfers(jobid, inputFiles, 1)

\* the input file dicts of one job: up to MaxInputs sources
InputFileDicts ==
    UNION {[1..n -> Sources] : n \in 0..MaxInputs}

\* the input file dicts of the sibling job
SiblingInputCounts == {0, 1}
SiblingInputFileDicts ==
    UNION {[1..n -> Sources] : n \in SiblingInputCounts}

Min(a, b) == IF a < b THEN a ELSE b

\* uploadJobFiles up to the start of the worker threads
UpInit ==
    \E inputsA \in InputFileDicts, inputsB \in SiblingInputFileDicts,
       workers \in 1..MaxUpWorkers :
        /\ jobInputs = [j \in UpJobs |-> IF j = "A" THEN inputsA ELSE inputsB]
        /\ uploadQueue = AddInputTransfers("A", inputsA)
                            \o AddInputTransfers("B", inputsB)
        /\ upResultDict = [j \in UpJobs |->
                IF InputFileError(IF j = "A" THEN inputsA ELSE inputsB)
                THEN <<"InputFileError">> ELSE <<>>]
        /\ upWorkers = Min(Len(uploadQueue), workers)
        /\ upPc = [w \in UpWorkerIds |-> IF w <= upWorkers THEN "get" ELSE "off"]
        /\ upload = [w \in UpWorkerIds |-> NoTransfer]
        /\ cancelEvent = [j \in UpJobs |-> FALSE]
        /\ upErrorQueue = {}
        /\ uploadFileLog = {}
        /\ skipLog = {}
        /\ uploadFailLog = {}
        /\ upMain = "wait"
        /\ upReturn = <<>>

\* uploadJobFiles called with inputs that are all validated: every source
\* is an existing local file
UpValidatedInit ==
    /\ UpInit
    /\ \A j \in UpJobs :
          \A i \in 1..Len(jobInputs[j]) : jobInputs[j][i] = "local"

\* uploadQueue.get(block=False): the queue without its head
UploadQueuePeeked(q) == q
UploadQueuePopped(q) == Tail(q)

\* _uploadTransferWorker: uploadQueue.get(block=False), queue.Empty ends
\* the worker
UploadGet(w) ==
    /\ upPc[w] = "get"
    /\ UNCHANGED upOthers
    /\ UNCHANGED <<jobInputs, uploadFailLog, upMain, upReturn>>
    /\ IF uploadQueue # <<>>
       THEN /\ upload' = [upload EXCEPT ![w] = Head(uploadQueue)]
            /\ uploadQueue' = UploadQueuePopped(uploadQueue)
            /\ upPc' = [upPc EXCEPT ![w] = "claimed"]
       ELSE /\ upPc' = [upPc EXCEPT ![w] = "done"]
            /\ UNCHANGED <<upload, uploadQueue>>
    /\ UNCHANGED <<upWorkers, cancelEvent, upErrorQueue, upResultDict,
                   uploadFileLog, skipLog>>

\* the test of the job's cancel event: whether the claimed transfer is skipped
SkipUploadNever(ev, jobid) == FALSE
SkipUpload(ev, jobid) == ev[jobid]

\* _uploadTransferWorker: if upload.cancelEvent.is_set(): continue
UploadCheck(w) ==
    /\ upPc[w] = "claimed"
    /\ UNCHANGED upOthers
    /\ UNCHANGED <<jobInputs, uploadFailLog, upMain, upReturn>>
    /\ IF SkipUpload(cancelEvent, upload[w].jobid)
       THEN /\ upPc' = [upPc EXCEPT ![w] = "get"]
            /\ skipLog' = skipLog \cup {upload[w]}
            /\ upload' = [upload EXCEPT ![w] = NoTransfer]
       ELSE /\ upPc' = [upPc EXCEPT ![w] = "checked"]
            /\ UNCHANGED <<skipLog, upload>>
    /\ UNCHANGED <<upWorkers, uploadQueue, cancelEvent, upErrorQueue,
                   upResultDict, uploadFileLog>>

\* _uploadTransferWorker: restClient.uploadFile is called
UploadStart(w) ==
    /\ upPc[w] = "checked"
    /\ UNCHANGED upOthers
    /\ UNCHANGED <<jobInputs, uploadFailLog, upMain, upReturn>>
    /\ upPc' = [upPc EXCEPT ![w] = "uploading"]
    /\ uploadFileLog' = uploadFileLog \cup {upload[w]}
    /\ UNCHANGED <<upWorkers, uploadQueue, upload, cancelEvent, upErrorQueue,
                   upResultDict, skipLog>>

\* the cancel events after the upload of a transfer of jobid has failed
CancelNothing(ev, jobid) == ev
CancelEveryJob(ev, jobid) == [j \in DOMAIN ev |-> TRUE]
CancelJob(ev, jobid) == [ev EXCEPT ![jobid] = TRUE]

\* _uploadTransferWorker: uploadFile returns, or raises and the worker
\* sets the job's cancel event and records the error
UploadFinish(w) ==
    /\ upPc[w] = "uploading"
    /\ UNCHANGED upOthers
    /\ UNCHANGED <<jobInputs, upMain, upReturn>>
    /\ \E ok \in BOOLEAN :
          IF ok
          THEN UNCHANGED <<cancelEvent, upErrorQueue, uploadFailLog>>
          ELSE /\ cancelEvent' = CancelJob(cancelEvent, upload[w].jobid)
               /\ upErrorQueue' = upErrorQueue \cup
                     {[jobid |-> upload[w].jobid, name |-> upload[w].name,
                       error |-> "error"]}
               /\ uploadFailLog' = uploadFailLog \cup {upload[w]}
    /\ upPc' = [upPc EXCEPT ![w] = "get"]
    /\ upload' = [upload EXCEPT ![w] = NoTransfer]
    /\ UNCHANGED <<upWorkers, uploadQueue, upResultDict, uploadFileLog, skipLog>>

UpWorkerStep(w) ==
    \/ UploadGet(w)
    \/ UploadCheck(w)
    \/ UploadStart(w)
    \/ UploadFinish(w)

\* concurrent.futures.wait(futures) and the end of the with block: every
\* worker has returned (there is none when the queue was empty at the start)
UpWorkersReturnedAny == \E w \in UpWorkerIds : upPc[w] \in {"done", "off"}
UpWorkersReturned == \A w \in UpWorkerIds : upPc[w] \in {"done", "off"}

\* one iteration of the loop that gets the transfer errors: an error is
\* taken from errorQueue and appended to the list of its job
UploadMerge ==
    /\ upMain \in {"wait", "merge"}
    /\ UpWorkersReturned
    /\ UNCHANGED upOthers
    /\ \E error \in upErrorQueue :
          /\ upErrorQueue' = upErrorQueue \ {error}
          /\ upResultDict' = AppendError(upResultDict, error)
    /\ upMain' = "merge"
    /\ UNCHANGED <<upWorkers, uploadQueue, upPc, upload, cancelEvent,
                   uploadFileLog, skipLog, jobInputs, uploadFailLog, upReturn>>

\* uploadJobFiles returns, when the queue was empty from the start or
\* after the workers have returned and errorQueue is empty
UploadReturn ==
    /\ upMain \in {"wait", "merge"}
    /\ UpWorkersReturned
    /\ upErrorQueue = {}
    /\ UNCHANGED upOthers
    /\ upReturn' = JobResultList(upResultDict, UpJobIds)
    /\ upMain' = "returned"
    /\ UNCHANGED <<upWorkers, uploadQueue, upPc, upload, cancelEvent,
                   upErrorQueue, upResultDict, uploadFileLog, skipLog,
                   jobInputs, uploadFailLog>>

UpIdle ==
    /\ upWorkers = 0
    /\ uploadQueue = <<>>
    /\ upPc = [w \in UpWorkerIds |-> "off"]
    /\ upload = [w \in UpWorkerIds |-> NoTransfer]
    /\ cancelEvent = [j \in UpJobs |-> FALSE]
    /\ upErrorQueue = {}
    /\ upResultDict = [j \in UpJobs |-> <<>>]
    /\ uploadFileLog = {}
    /\ skipLog = {}
    /\ jobInputs = [j \in UpJobs |-> <<>>]
    /\ uploadFailLog = {}
    /\ upMain = "off"
    /\ upReturn = <<>>

(***************************************************************************)
(* Properties of the download engine.                                      *)
(***************************************************************************)
AllClaimed == \A t \in putLog : t \in DOMAIN claimLog

Processing(w) == pc[w] \in {"claimed", "adding"}

\* C1: whenever a worker's get() has signalled termination, the pool is
\* empty, no worker is processing a claimed transfer (none can still put
\* children) and every transfer ever put has been claimed.
C1_NoEarlyTermination ==
    \A w \in Workers :
        pc[w] = "done" =>
            /\ queue = <<>>
            /\ \A v \in Workers : ~Processing(v)
            /\ AllClaimed

\* the largest remote tree, with a sub-directory, handled by the largest pool
FullTree ==
    /\ numWorkers = MaxWorkers
    /\ remote = [rf |-> MaxFiles, sd |-> 1, sf |-> 1]
    /\ Cardinality(putLog) >= 3 + MaxFiles

C1_Witness ==
    /\ FullTree
    /\ \E w \in Workers : pc[w] = "done"
    /\ \E v \in Workers : pc[v] = "waiting"

AllDone == \A w \in Workers : pc[w] = "done"

\* C2: under fair scheduling of the worker threads every download worker
\* eventually leaves its loop, for every remote tree and worker count.
C2_WorkersTerminate == <>AllDone

C2_Witness == FullTree /\ AllDone /\ failures = 0

\* C3: every transfer get() has returned was put and was returned exactly
\* once, a queued transfer has not been claimed yet, and when all workers have
\* terminated every transfer ever put has been claimed.
C3_ClaimedExactlyOnce ==
    /\ \A t \in DOMAIN claimLog : t \in putLog /\ claimLog[t] = 1
    /\ \A i \in 1..Len(queue) : queue[i] \notin DOMAIN claimLog
    /\ AllDone => AllClaimed /\ queue = <<>>

C3_Witness ==
    /\ FullTree
    /\ AllDone
    /\ \A t \in putLog : claimLog[t] = 1

(***************************************************************************)
(* submitJobs.                                                             *)
(***************************************************************************)
\* A job description is modelled by what the arc library and matchJob do
\* with it: parse (JobDescription_Parse succeeds), match (matchJob returns
\* no error), unparse (UnParse succeeds).
Descriptions == [parse : BOOLEAN, match : BOOLEAN, unparse : BOOLEAN]

\* the entries of resultDict: a list of errors, or (jobid, state)
Errors(errs) ==
    [kind |-> "errors", errors |-> errs, jobid |-> <<>>, state |-> "",
     uploadErrors |-> <<>>]
Job(jobid, state) ==
    [kind |-> "job", errors |-> <<>>, jobid |-> jobid, state |-> state,
     uploadErrors |-> <<>>]

\* InputUploadError(jobid, state, uploadErrors) as the only error of a list
InputUploadErrorBare(jobid, state, uploadErrors) ==
    Errors(<<"InputUploadError">>)
InputUploadError(jobid, state, uploadErrors) ==
    [kind |-> "errors", errors |-> <<"InputUploadError">>, jobid |-> jobid,
     state |-> state, uploadErrors |-> uploadErrors]

\* the error lists uploadJobFiles returns for one job
UploadErrorLists == {<<>>, <<"e1">>, <<"e1", "e2">>}

\* a call made by _submitJobs, with its arguments and what it returned
Call(name, args, result) == [call |-> name, args |-> args, result |-> result]

\* the id the CE gives to the job created from description i
JobIdOf(i) == <<"job", i>>

\* resultDict[i] = value
SetResult(dict, i, value) ==
    IF i \in DOMAIN dict THEN [dict EXCEPT ![i] = value] ELSE dict @@ (i :> value)

\* [resultDict[i] for i in range(len(descs))]
ResultList(dict, n) == [i \in 1..n |-> dict[i]]

SjInit ==
    /\ descs \in UNION {[1..n -> Descriptions] : n \in 1..MaxDescs}
    /\ matchDescs \in BOOLEAN
    /\ uploadData \in BOOLEAN
    /\ delegationID \in {"", "D1"}
    /\ sjPc = "start"
    /\ sjI = 1
    /\ tosubmit = <<>>
    /\ bulkdesc = <<>>
    /\ resultDict = <<>>
    /\ sjReturn = <<>>
    /\ sjError = ""
    /\ sjCalls = <<>>

\* if not delegationID: whether _submitJobs creates a delegation itself
CreateAlways(id) == TRUE
CreateOwnDelegation(id) == id = ""

\* _submitJobs: getCEInfo, and createDelegation when no delegation id is
\* given; either may raise
SjStart ==
    /\ UNCHANGED sjOthers
    /\ sjPc = "start"
    /\ \E ceInfoOk \in BOOLEAN, delegOk \in BOOLEAN :
          IF ~ceInfoOk
          THEN /\ sjPc' = "raised"
               /\ sjError' = "getCEInfo"
               /\ sjCalls' = sjCalls \o <<Call("getCEInfo", <<>>, <<>>)>>
               /\ UNCHANGED delegationID
          ELSE IF ~CreateOwnDelegation(delegationID)
          THEN /\ sjPc' = "loop"
               /\ sjCalls' = sjCalls \o <<Call("getCEInfo", <<>>, <<>>)>>
               /\ UNCHANGED <<sjError, delegationID>>
          ELSE IF ~delegOk
          THEN /\ sjPc' = "raised"
               /\ sjError' = "createDelegation"
               /\ sjCalls' = sjCalls \o <<Call("getCEInfo", <<>>, <<>>),
                                         Call("createDelegation", <<>>, <<>>)>>
               /\ UNCHANGED delegationID
          ELSE /\ sjPc' = "loop"
               /\ delegationID' = "new"
               /\ sjCalls' = sjCalls \o <<Call("getCEInfo", <<>>, <<>>),
                                         Call("createDelegation", <<>>, <<>>)>>
               /\ UNCHANGED sjError
    /\ UNCHANGED <<descs, matchDescs, uploadData, sjI, tosubmit, bulkdesc,
                   resultDict, sjReturn>>

\* the index stored in tosubmit for description i
SubmitIndexShifted(i, submitted) == Len(submitted) + 1
SubmitIndex(i, submitted) == i

\* one iteration of the loop over the descriptions
SjProcessDesc ==
    /\ UNCHANGED sjOthers
    /\ sjPc = "loop"
    /\ sjI <= Len(descs)
    /\ IF ~descs[sjI].parse
       THEN /\ resultDict' = SetResult(resultDict, sjI,
                                Errors(<<"DescriptionParseError">>))
            /\ UNCHANGED <<tosubmit, bulkdesc>>
       ELSE IF matchDescs /\ ~descs[sjI].match
       THEN /\ resultDict' = SetResult(resultDict, sjI,
                                Errors(<<"MatchmakingError">>))
            /\ UNCHANGED <<tosubmit, bulkdesc>>
       ELSE IF ~descs[sjI].unparse
       THEN /\ resultDict' = SetResult(resultDict, sjI,
                                Errors(<<"DescriptionUnparseError">>))
            /\ UNCHANGED <<tosubmit, bulkdesc>>
       ELSE /\ bulkdesc' = Append(bulkdesc, sjI)
            /\ tosubmit' = Append(tosubmit, SubmitIndex(sjI, tosubmit))
            /\ UNCHANGED resultDict
    /\ sjI' = sjI + 1
    /\ UNCHANGED <<descs, matchDescs, uploadData, delegationID, sjPc, sjReturn,
                   sjError, sjCalls>>

\* if not tosubmit: return [resultDict[i] for i in range(len(descs))]
SjReturnUnsubmitted ==
    /\ UNCHANGED sjOthers
    /\ sjPc = "loop"
    /\ sjI > Len(descs)
    /\ tosubmit = <<>>
    /\ sjReturn' = ResultList(resultDict, Len(descs))
    /\ sjPc' = "returned"
    /\ UNCHANGED <<descs, matchDescs, uploadData, delegationID, sjI, tosubmit,
                   bulkdesc, resultDict, sjError, sjCalls>>

RECURSIVE MergeResults(_, _, _, _)
\* the loop over zip(tosubmit, results): results[k] is stored at tosubmit[k]
MergeResults(dict, submitted, results, k) ==
    IF k > Len(submitted) \/ k > Len(results) THEN dict
    ELSE MergeResults(SetResult(dict, submitted[k], results[k]),
                      submitted, results, k + 1)

\* createJobs: the CE answers the bulk document with a status other than
\* 201 (createJobs raises ARCHTTPError), or with one result per description
\* of the bulk document, an error or the id and state of the new job
SjCreateJobs ==
    /\ UNCHANGED sjOthers
    /\ sjPc = "loop"
    /\ sjI > Len(descs)
    /\ tosubmit # <<>>
    /\ \/ /\ sjPc' = "raised"
          /\ sjError' = "createJobs"
          /\ sjCalls' = sjCalls \o <<Call("createJobs", bulkdesc, <<>>)>>
          /\ UNCHANGED resultDict
       \/ \E accepted \in [1..Len(bulkdesc) -> BOOLEAN] :
            LET results == [k \in 1..Len(bulkdesc) |->
                        IF accepted[k] THEN Job(JobIdOf(bulkdesc[k]), "ACCEPTING")
                        ELSE Errors(<<"ARCHTTPError">>)]
            IN  /\ resultDict' = MergeResults(resultDict, tosubmit, results, 1)
                /\ sjCalls' = sjCalls \o
                                <<Call("createJobs", bulkdesc, results)>>
                /\ sjPc' = "upload"
                /\ UNCHANGED sjError
    /\ UNCHANGED <<descs, matchDescs, uploadData, delegationID, sjI, tosubmit,
                   bulkdesc, sjReturn>>

\* uploadIXs: the indexes of the descriptions whose job was created
RECURSIVE UploadIXs(_, _, _)
UploadIXsOfAll(dict, submitted, k) == submitted
UploadIXs(dict, submitted, k) ==
    IF k > Len(submitted) THEN <<>>
    ELSE IF submitted[k] \in DOMAIN dict /\ dict[submitted[k]].kind = "job"
    THEN <<submitted[k]>> \o UploadIXs(dict, submitted, k + 1)
    ELSE UploadIXs(dict, submitted, k + 1)

RECURSIVE MergeUploadErrors(_, _, _, _)
\* the loop over zip(uploadIXs, errors): an entry with upload errors is
\* replaced by an InputUploadError that keeps the job id and state
MergeUploadErrors(dict, ixs, errors, k) ==
    IF k > Len(ixs) THEN dict
    ELSE MergeUploadErrors(
            IF errors[k] # <<>>
            THEN SetResult(dict, ixs[k],
                    InputUploadError(dict[ixs[k]].jobid, dict[ixs[k]].state,
                                     errors[k]))
            ELSE dict,
            ixs, errors, k + 1)

\* the rest of _submitJobs: uploadJobFiles for the created jobs when
\* uploadData is set (it returns one error list per job id), and the return
\* of the result list
SjUpload ==
    /\ UNCHANGED sjOthers
    /\ sjPc = "upload"
    /\ LET ixs == UploadIXs(resultDict, tosubmit, 1) IN
        IF uploadData
        THEN \E errors \in [1..Len(ixs) -> UploadErrorLists] :
                /\ resultDict' = MergeUploadErrors(resultDict, ixs, errors, 1)
                /\ sjCalls' = sjCalls \o
                      <<Call("uploadJobFiles",
                             [k \in 1..Len(ixs) |-> resultDict[ixs[k]].jobid],
                             errors)>>
        ELSE UNCHANGED <<resultDict, sjCalls>>
    /\ sjReturn' = ResultList(resultDict', Len(descs))
    /\ sjPc' = "returned"
    /\ UNCHANGED <<descs, matchDescs, uploadData, delegationID, sjI, tosubmit,
                   bulkdesc, sjError>>

SjIdle ==
    /\ descs = <<>>
    /\ matchDescs = FALSE
    /\ uploadData = FALSE
    /\ delegationID = ""
    /\ sjPc = "off"
    /\ sjI = 1
    /\ tosubmit = <<>>
    /\ bulkdesc = <<>>
    /\ resultDict = <<>>
    /\ sjReturn = <<>>
    /\ sjError = ""
    /\ sjCalls = <<>>

(***************************************************************************)
(* Properties of submitJobs.                                               *)
(***************************************************************************)
\* entry e is an outcome of description i
OutcomeOf(e, i) ==
    IF ~descs[i].parse THEN e = Errors(<<"DescriptionParseError">>)
    ELSE IF matchDescs /\ ~descs[i].match THEN e = Errors(<<"MatchmakingError">>)
    ELSE IF ~descs[i].unparse THEN e = Errors(<<"DescriptionUnparseError">>)
    ELSE \/ e = Errors(<<"ARCHTTPError">>)
         \/ e = Job(JobIdOf(i), "ACCEPTING")
         \/ \E errors \in UploadErrorLists \ {<<>>} :
                e = InputUploadError(JobIdOf(i), "ACCEPTING", errors)

\* C4: once the descriptions are being processed, whatever fails, the call
\* ends by returning a list with one entry per description, entry i being
\* the outcome of description i.
C4_OneResultPerDescription ==
    (sjPc \in {"returned", "raised"}
        /\ sjError \notin {"getCEInfo", "createDelegation"}) =>
            /\ sjPc = "returned"
            /\ Len(sjReturn) = Len(descs)
            /\ \A i \in 1..Len(descs) : OutcomeOf(sjReturn[i], i)

(***************************************************************************)
(* createDelegation and refreshDelegation.                                 *)
(***************************************************************************)
\* the delegation ids of the CE
DelegationIDs == {"d1", "d2"}

\* A delegation of the CE is "none" (no such delegation), "requested" (new,
\* the CE waits for the signed certificate), "renewing" (renew requested, no
\* certificate uploaded yet) or "active".
Request(action, id, ok, headers) ==
    [action |-> action, id |-> id, ok |-> ok, headers |-> headers]

\* the headers of newDelegation and renewDelegation: X-Delegation with the
\* bearer token when self.token is set
DelegationHeaders(tok) == IF tok THEN {"X-Delegation"} ELSE {}

\* if not self.token: where createDelegation and refreshDelegation go after
\* newDelegation, renewDelegation has returned
AfterRequestSign(tok) == "sign"
AfterRequest(tok) == IF tok THEN "returned" ELSE "sign"

DgInit ==
    /\ token \in BOOLEAN
    /\ delegations \in [DelegationIDs -> {"none", "active"}]
    /\ dgCalls = 0
    /\ dgOp = ""
    /\ dgPc = "idle"
    /\ dgID = ""
    /\ dgRequests = <<>>
    /\ dgRaised = ""
    /\ dgFailure = ""
    /\ dgReturn = ""

\* the caller calls createDelegation(), or refreshDelegation(id)
DgCall ==
    /\ UNCHANGED dgOthers
    /\ dgPc \in {"idle", "returned", "raised"}
    /\ dgCalls < MaxDelegCalls
    /\ dgCalls' = dgCalls + 1
    /\ \/ dgOp' = "create" /\ dgID' = "" /\ dgPc' = "new"
       \/ \E id \in DelegationIDs :
            dgOp' = "refresh" /\ dgID' = id /\ dgPc' = "renew"
    /\ dgRequests' = <<>>
    /\ dgRaised' = ""
    /\ dgFailure' = ""
    /\ dgReturn' = ""
    /\ UNCHANGED <<token, delegations>>

\* newDelegation: the CE creates a delegation and answers 201 with its id,
\* or the request fails and ARCHTTPError is raised
NewDelegation ==
    /\ UNCHANGED dgOthers
    /\ dgPc = "new"
    /\ \/ \E id \in DelegationIDs :
            /\ delegations[id] = "none"
            /\ delegations' = [delegations EXCEPT ![id] =
                                  IF token THEN "active" ELSE "requested"]
            /\ dgID' = id
            /\ dgRequests' = Append(dgRequests,
                    Request("new", id, TRUE, DelegationHeaders(token)))
            /\ dgPc' = AfterRequest(token)
            /\ dgReturn' = IF dgPc' = "returned" THEN id ELSE dgReturn
            /\ UNCHANGED dgRaised
       \/ /\ dgRequests' = Append(dgRequests,
                    Request("new", "", FALSE, DelegationHeaders(token)))
          /\ dgPc' = "raised"
          /\ dgRaised' = "new"
          /\ UNCHANGED <<dgID, delegations, dgReturn>>
    /\ UNCHANGED <<token, dgCalls, dgOp, dgFailure>>

\* renewDelegation: the CE answers 201, or the request fails (no such
\* delegation, or another error) and ARCHTTPError is raised
RenewDelegation ==
    /\ UNCHANGED dgOthers
    /\ dgPc = "renew"
    /\ \/ /\ delegations[dgID] # "none"
          /\ delegations' = [delegations EXCEPT ![dgID] =
                                IF token THEN "active" ELSE "renewing"]
          /\ dgRequests' = Append(dgRequests,
                  Request("renew", dgID, TRUE, DelegationHeaders(token)))
          /\ dgPc' = AfterRequest(token)
          /\ UNCHANGED dgRaised
       \/ /\ dgRequests' = Append(dgRequests,
                  Request("renew", dgID, FALSE, DelegationHeaders(token)))
          /\ dgPc' = "raised"
          /\ dgRaised' = "renew"
          /\ UNCHANGED delegations
    /\ UNCHANGED <<token, dgCalls, dgOp, dgID, dgFailure, dgReturn>>

\* where a failure of _signCSR or uploadCertDelegation leads: the except
\* clause, which calls deleteDelegation
ExceptClauseOfCreate(op) == IF op = "create" THEN "delete" ELSE "raised"
ExceptClauseOfRefresh(op) == IF op = "refresh" THEN "delete" ELSE "raised"
ExceptClause(op) == "delete"

\* the state of the call after the failure of _signCSR or of
\* uploadCertDelegation
Failed(what) ==
    /\ dgPc' = ExceptClause(dgOp)
    /\ dgFailure' = what
    /\ dgRaised' = IF ExceptClause(dgOp) = "raised" THEN what ELSE dgRaised

\* _signCSR signs the CSR with the proxy, or raises
SignCSR ==
    /\ UNCHANGED dgOthers
    /\ dgPc = "sign"
    /\ \/ dgPc' = "upload" /\ UNCHANGED <<dgFailure, dgRaised>>
       \/ Failed("sign")
    /\ UNCHANGED <<token, dgCalls, dgOp, dgID, dgRequests, delegations,
                   dgReturn>>

\* uploadCertDelegation: the CE stores the certificate and answers 200, or
\* the request fails and ARCHTTPError is raised
UploadCertDelegation ==
    /\ UNCHANGED dgOthers
    /\ dgPc = "upload"
    /\ \/ /\ delegations' = [delegations EXCEPT ![dgID] = "active"]
          /\ dgRequests' = Append(dgRequests,
                  Request("upload", dgID, TRUE, {"Content-Type"}))
          /\ dgPc' = "returned"
          /\ dgReturn' = IF dgOp = "create" THEN dgID ELSE dgReturn
          /\ UNCHANGED <<dgFailure, dgRaised>>
       \/ /\ dgRequests' = Append(dgRequests,
                  Request("upload", dgID, FALSE, {"Content-Type"}))
          /\ Failed("upload")
          /\ UNCHANGED <<delegations, dgReturn>>
    /\ UNCHANGED <<token, dgCalls, dgOp, dgID>>

\* what the except clause raises: the bare raise re-raises the handled
\* failure when deleteDelegation returned; an ARCHTTPError raised by
\* deleteDelegation leaves the clause before the raise is reached
RaisedOriginal(deleted, failure) == failure
RaisedByExceptClause(deleted, failure) ==
    IF deleted THEN failure ELSE "delete"

\* the except clause: deleteDelegation(delegationID), then raise.  The CE
\* deletes the delegation and answers 202 and the handled failure is raised
\* again, or the request fails and its ARCHTTPError is raised instead
DeleteDelegation ==
    /\ UNCHANGED dgOthers
    /\ dgPc = "delete"
    /\ \/ /\ delegations' = [delegations EXCEPT ![dgID] = "none"]
          /\ dgRequests' = Append(dgRequests, Request("delete", dgID, TRUE, {}))
          /\ dgRaised' = RaisedByExceptClause(TRUE, dgFailure)
       \/ /\ dgRequests' = Append(dgRequests, Request("delete", dgID, FALSE, {}))
          /\ dgRaised' = RaisedByExceptClause(FALSE, dgFailure)
          /\ UNCHANGED delegations
    /\ dgPc' = "raised"
    /\ UNCHANGED <<token, dgCalls, dgOp, dgID, dgFailure, dgReturn>>

DgIdle ==
    /\ token = FALSE
    /\ delegations = [id \in DelegationIDs |-> "none"]
    /\ dgCalls = 0
    /\ dgOp = ""
    /\ dgPc = "off"
    /\ dgID = ""
    /\ dgRequests = <<>>
    /\ dgRaised = ""
    /\ dgFailure = ""
    /\ dgReturn = ""

(***************************************************************************)
(* Properties of the delegation calls.                                     *)
(***************************************************************************)
Deletes == {k \in 1..Len(dgRequests) : dgRequests[k].action = "delete"}

\* the call made the request successfully
Succeeded(action) ==
    \E k \in 1..Len(dgRequests) :
        dgRequests[k].action = action /\ dgRequests[k].ok

\* the last request of the call is the only delete, for the call's delegation
DeletedLast ==
    /\ Deletes = {Len(dgRequests)}
    /\ dgRequests[Len(dgRequests)].id = dgID

\* C6: createDelegation with certificate credentials has issued a delete for
\* the new delegation id, as its last request, when it raises after the slot
\* was created; it has issued no delete when newDelegation failed or when the
\* call returned.
C6_CreateRollsBack ==
    (dgOp = "create" /\ ~token) =>
        /\ (dgPc = "raised" /\ Succeeded("new")) => DeletedLast
        /\ (dgPc = "raised" /\ ~Succeeded("new")) => Deletes = {}
        /\ dgPc = "returned" => Deletes = {}
        /\ dgPc \notin {"raised", "returned", "delete"} => Deletes = {}

C6_Witness ==
    /\ dgOp = "create" /\ ~token /\ dgPc = "raised"
    /\ dgFailure = "upload"
    /\ Succeeded("new")
    /\ DeletedLast

HalfRenewed == delegations[dgID] = "renewing"

\* C7 as claimed: refreshDelegation with certificate credentials that raises
\* after a successful renew has issued a delete for the delegation, and the
\* delegation is not left half-renewed.
C7_RefreshNeverHalfRenewed ==
    (dgOp = "refresh" /\ ~token /\ dgPc = "raised" /\ Succeeded("renew")) =>
        DeletedLast /\ ~HalfRenewed

\* C7 amended: the delete is issued, and the delegation is not left
\* half-renewed unless the delete request itself failed.
C7_RefreshRollsBack ==
    (dgOp = "refresh" /\ ~token /\ dgPc = "raised" /\ Succeeded("renew")) =>
        /\ DeletedLast
        /\ Succeeded("delete") => ~HalfRenewed

C7_Witness ==
    /\ dgOp = "refresh" /\ ~token /\ dgPc = "raised"
    /\ Succeeded("renew")
    /\ dgFailure = "sign"
    /\ Succeeded("delete")
    /\ delegations[dgID] = "none"

\* the call handled a failure of _signCSR or uploadCertDelegation and has
\* raised
Compensated == dgPc = "raised" /\ dgFailure # ""

\* C37: createDelegation and refreshDelegation that raise after a failure of
\* _signCSR or uploadCertDelegation raise that failure when the compensating
\* delete succeeded; when the delete failed they raise the delete's error
\* and the delegation is still on the server.
C37_CompensationOutcome ==
    Compensated =>
        /\ dgOp \in {"create", "refresh"} /\ ~token
        /\ DeletedLast
        /\ Succeeded("delete") =>
              dgRaised = dgFailure /\ delegations[dgID] = "none"
        /\ ~Succeeded("delete") =>
              dgRaised = "delete" /\ delegations[dgID] # "none"

C37_Witness ==
    /\ Compensated
    /\ dgOp = "refresh"
    /\ dgFailure = "upload"
    /\ ~Succeeded("delete")
    /\ dgRaised = "delete"
    /\ delegations[dgID] = "renewing"

\* the calls of createDelegation and of deleteDelegation made by the call
\* of submitJobs
DelegationCreations ==
    {k \in 1..Len(sjCalls) : sjCalls[k].call = "createDelegation"}
DelegationDeletions ==
    {k \in 1..Len(sjCalls) : sjCalls[k].call = "deleteDelegation"}

\* the call of submitJobs has ended without a job: no description reached
\* the bulk document, or createJobs raised
EndedWithoutJob ==
    \/ sjPc = "returned" /\ tosubmit = <<>>
    \/ sjPc = "raised" /\ sjError = "createJobs"

\* C38: submitJobs called without a delegation id calls createDelegation
\* once, right after getCEInfo and before any description is processed, and
\* keeps the new id to the end; called with a delegation id it keeps that id
\* and never calls createDelegation; it never calls deleteDelegation, also
\* when it ends without a job.
C38_DelegationCreatedOnceNeverDeleted ==
    /\ [](/\ DelegationDeletions = {}
          /\ Cardinality(DelegationCreations) <= 1
          /\ delegationID = "new" <=>
                (DelegationCreations # {} /\ sjError # "createDelegation")
          /\ (EndedWithoutJob /\ delegationID = "new") =>
                DelegationCreations = {2})
    /\ [][/\ (sjPc = "start" /\ delegationID # "") =>
                (delegationID' = delegationID /\ DelegationCreations' = {})
          /\ (sjPc = "start" /\ delegationID = "" /\ sjPc' = "loop") =>
                (delegationID' = "new" /\ DelegationCreations' = {2})
          /\ DelegationCreations' # DelegationCreations =>
                (/\ sjPc = "start" /\ sjI = 1
                 /\ tosubmit = <<>> /\ bulkdesc = <<>> /\ resultDict = <<>>)
          /\ sjPc # "start" => delegationID' = delegationID]_vars

C38_Witness ==
    /\ EndedWithoutJob
    /\ sjError = "createJobs"
    /\ delegationID = "new"
    /\ DelegationCreations = {2}
    /\ DelegationDeletions = {}

(***************************************************************************)
(* matchJob.                                                               *)
(***************************************************************************)
\* A ComputingShare of the info document: its Name, whether it has the key
\* MappingPolicy, whether it has the key MaxWallTime and that value's text
\* (a string of decimal digits).
QueueNames == {"Q", "S"}
WallTimeTexts == {<<2>>, <<1, 0>>}
ComputingShares ==
    [Name : QueueNames, MappingPolicy : BOOLEAN, hasMaxWallTime : {FALSE},
     MaxWallTime : {<<>>}]
    \cup [Name : QueueNames, MappingPolicy : BOOLEAN, hasMaxWallTime : {TRUE},
          MaxWallTime : WallTimeTexts]

\* An ApplicationEnvironment: AppName, and AppVersion if it has one.  Names
\* are strings of characters.
ApplicationEnvironments ==
    {[AppName |-> <<"a">>, hasAppVersion |-> FALSE, AppVersion |-> <<>>],
     [AppName |-> <<"a">>, hasAppVersion |-> TRUE, AppVersion |-> <<"1">>]}

\* A JSON value that is a list of entries (isList) or a single bare entry.
\* A missing key is the default, an empty list.
ListOf(entries) == [isList |-> TRUE, items |-> entries]
ObjectOf(entry) == [isList |-> FALSE, object |-> entry]

ShareDocuments ==
    {ListOf(l) : l \in UNION {[1..n -> ComputingShares] : n \in 0..MaxShares}}
        \cup {ObjectOf(e) : e \in ComputingShares}

EnvironmentDocuments ==
    {ListOf(<<>>)} \cup {ListOf(<<e>>) : e \in ApplicationEnvironments}
        \cup {ObjectOf(e) : e \in ApplicationEnvironments}

\* the requests
RequestedQueues == {"", "Q"}
RequestedWalltimes == {-1, 0, 2, 3}
RequestedRuntimes ==
    {<<>>, <<<<"a">>>>, <<<<"a", "-", "1">>>>,
     <<<<"a">>, <<"b">>>>, <<<<"b">>, <<"a", "-", "1">>>>, <<<<"b">>, <<"b">>>>}

\* int(text) for a string of decimal digits
RECURSIVE ParseInt(_)
ParseInt(text) ==
    IF text = <<>> THEN 0
    ELSE 10 * ParseInt(SubSeq(text, 1, Len(text) - 1)) + text[Len(text)]

\* if not isinstance(x, list): x = [x]
AsListUnwrapped(doc) == IF doc.isList THEN doc.items ELSE <<>>
AsList(doc) == IF doc.isList THEN doc.items ELSE <<doc.object>>

\* the result of _findQueue when there is no such queue (None)
NoQueue == [found |-> FALSE,
            share |-> [Name |-> "", MappingPolicy |-> FALSE,
                       hasMaxWallTime |-> FALSE, MaxWallTime |-> <<>>]]

\* what _findQueue returns for the first share with the name of the queue
FoundIgnoringMapping(share) == [found |-> TRUE, share |-> share]
Found(share) ==
    IF share.MappingPolicy THEN NoQueue ELSE [found |-> TRUE, share |-> share]

RECURSIVE FindQueueFrom(_, _, _)
\* the loop of _findQueue over compShares, from position k
FindQueueSkippingMapped(compShares, q, k) ==
    LET usable == {i \in k..Len(compShares) :
                      compShares[i].Name = q /\ ~compShares[i].MappingPolicy}
    IN  IF usable = {} THEN NoQueue
        ELSE [found |-> TRUE,
              share |-> compShares[CHOOSE i \in usable :
                                      \A j \in usable : i <= j]]
FindQueueFrom(compShares, q, k) ==
    IF k > Len(compShares) THEN NoQueue
    ELSE IF compShares[k].Name = q THEN Found(compShares[k])
    ELSE FindQueueFrom(compShares, q, k + 1)

\* _findQueue
FindQueue(info, q) ==
    IF info.ComputingShare = ListOf(<<>>) THEN NoQueue
    ELSE FindQueueFrom(AsList(info.ComputingShare), q, 1)

\* _matchQueue: the errors it raises
MatchQueue(info, q) ==
    IF FindQueue(info, q).found THEN <<>> ELSE <<"Queue not found">>

\* walltime > maxWallTime
ExceedsOrEquals(walltime, maxWallTime) == walltime >= maxWallTime
Exceeds(walltime, maxWallTime) == walltime > maxWallTime

\* _matchWalltime: the errors it raises
MatchWalltime(info, q, walltime) ==
    LET queueInfo == FindQueue(info, q) IN
    IF ~queueInfo.found THEN <<"Queue not found to match walltime">>
    ELSE IF queueInfo.share.hasMaxWallTime
            /\ Exceeds(walltime, ParseInt(queueInfo.share.MaxWallTime))
    THEN <<"Walltime higher than max walltime">>
    ELSE <<>>

\* the name _findRuntimes gives to an environment
EnvName(env) ==
    IF env.hasAppVersion THEN env.AppName \o <<"-">> \o env.AppVersion
    ELSE env.AppName

\* _findRuntimes
FindRuntimes(info) ==
    LET appenvs == AsList(info.ApplicationEnvironment)
    IN  [k \in 1..Len(appenvs) |-> EnvName(appenvs[k])]

\* _matchRuntime: the errors it raises
MatchRuntime(info, runtime) ==
    LET advertised == FindRuntimes(info) IN
    IF \E k \in 1..Len(advertised) : advertised[k] = runtime THEN <<>>
    ELSE <<"Runtime not found">>

RECURSIVE MatchRuntimesUntilError(_, _, _)
MatchRuntimesUntilError(info, runtimes, k) ==
    IF k > Len(runtimes) THEN <<>>
    ELSE IF MatchRuntime(info, runtimes[k]) # <<>>
    THEN MatchRuntime(info, runtimes[k])
    ELSE MatchRuntimesUntilError(info, runtimes, k + 1)

RECURSIVE MatchRuntimes(_, _, _)
\* the loop of matchJob over runtimes, from position k
MatchRuntimes(info, runtimes, k) ==
    IF k > Len(runtimes) THEN <<>>
    ELSE MatchRuntime(info, runtimes[k]) \o MatchRuntimes(info, runtimes, k + 1)

\* the truth value of the argument walltime: None (-1 here) and 0 are false
WalltimeGiven(walltime) == walltime # -1 /\ walltime # 0

\* matchJob
MatchJob(info, q, runtimes, walltime) ==
    (IF q # ""
     THEN MatchQueue(info, q)
            \o (IF WalltimeGiven(walltime) THEN MatchWalltime(info, q, walltime)
                ELSE <<>>)
     ELSE <<>>)
        \o MatchRuntimes(info, runtimes, 1)

MmInit ==
    /\ ceInfo \in [ComputingShare : ShareDocuments,
                    ApplicationEnvironment : EnvironmentDocuments]
    /\ mmQueue \in RequestedQueues
    /\ mmRuntimes \in RequestedRuntimes
    /\ mmWalltime \in RequestedWalltimes
    /\ mmPc = "call"
    /\ mmErrors = <<>>

\* the call matchJob(ceInfo, queue, runtimes, walltime)
MatchJobCall ==
    /\ UNCHANGED mmOthers
    /\ mmPc = "call"
    /\ mmErrors' = MatchJob(ceInfo, mmQueue, mmRuntimes, mmWalltime)
    /\ mmPc' = "done"
    /\ UNCHANGED <<ceInfo, mmQueue, mmRuntimes, mmWalltime>>

MmIdle ==
    /\ ceInfo = [ComputingShare |-> ListOf(<<>>),
                 ApplicationEnvironment |-> ListOf(<<>>)]
    /\ mmQueue = ""
    /\ mmRuntimes = <<>>
    /\ mmWalltime = -1
    /\ mmPc = "off"
    /\ mmErrors = <<>>

(***************************************************************************)
(* Properties of matchJob.                                                 *)
(***************************************************************************)
\* the violations of the queue and walltime checks
QueueAndWalltimeErrors ==
    SelectSeq(mmErrors, LAMBDA e : e # "Runtime not found")

AdvertisedShares == AsList(ceInfo.ComputingShare)

\* the positions of the advertised shares that have the requested name
Named == {k \in 1..Len(AdvertisedShares) : AdvertisedShares[k].Name = mmQueue}

\* C8 as claimed: for a queue that is not among the advertised shares the
\* queue and walltime checks yield exactly one violation, the queue
\* violation, whether or not a walltime is requested.
C8_UnknownQueueOneViolation ==
    (mmPc = "done" /\ mmQueue # "" /\ Named = {}) =>
        QueueAndWalltimeErrors = <<"Queue not found">>

\* C9: when the requested queue matches, there is a walltime violation
\* exactly if the queue has MaxWallTime and the requested walltime is
\* greater than it, and there is no other queue or walltime violation.
C9_WalltimeViolation ==
    (mmPc = "done" /\ mmQueue # "" /\ FindQueue(ceInfo, mmQueue).found) =>
        LET share == FindQueue(ceInfo, mmQueue).share IN
        QueueAndWalltimeErrors =
            IF /\ share.hasMaxWallTime
               /\ mmWalltime # -1
               /\ mmWalltime > ParseInt(share.MaxWallTime)
            THEN <<"Walltime higher than max walltime">>
            ELSE <<>>

\* walltime 3 requested for a queue with MaxWallTime "2": one violation
C9_Witness ==
    /\ mmPc = "done"
    /\ mmQueue = "Q"
    /\ mmWalltime = 3
    /\ mmRuntimes = <<>>
    /\ FindQueue(ceInfo, "Q").found
    /\ FindQueue(ceInfo, "Q").share.MaxWallTime = <<2>>
    /\ mmErrors = <<"Walltime higher than max walltime">>

FirstNamedIsMapped ==
    \E k \in Named :
        /\ AdvertisedShares[k].MappingPolicy
        /\ \A j \in Named : k <= j

FirstNamed == AdvertisedShares[CHOOSE k \in Named : \A j \in Named : k <= j]

\* two advertised shares have the requested name, and only one of them has
\* MappingPolicy
NamedTwiceMixed ==
    /\ Cardinality(Named) = 2
    /\ \E k \in Named : AdvertisedShares[k].MappingPolicy
    /\ \E k \in Named : ~AdvertisedShares[k].MappingPolicy

\* C39: the first advertised share with the requested name decides the
\* lookup alone: when it has MappingPolicy the queue is not found and the
\* request has the queue violation, whatever a later share of that name
\* says; when it has none it is the share returned, and the request has no
\* queue violation, also when a later share of that name has MappingPolicy.
C39_FirstNamedShareDecides ==
    (mmPc = "done" /\ mmQueue # "" /\ Named # {}) =>
        IF FirstNamed.MappingPolicy
        THEN /\ FindQueue(ceInfo, mmQueue) = NoQueue
             /\ \E i \in 1..Len(mmErrors) : mmErrors[i] = "Queue not found"
        ELSE /\ FindQueue(ceInfo, mmQueue) =
                    [found |-> TRUE, share |-> FirstNamed]
             /\ \A i \in 1..Len(mmErrors) : mmErrors[i] # "Queue not found"

\* the first share named Q has MappingPolicy, the second has none, and the
\* request for Q is refused
C39_Witness ==
    /\ mmPc = "done"
    /\ mmQueue = "Q"
    /\ NamedTwiceMixed
    /\ FirstNamed.MappingPolicy
    /\ mmErrors[1] = "Queue not found"

\* the first share named Q has no MappingPolicy, the second has one, and
\* the request for Q is matched
C39_WitnessFirstUnmapped ==
    /\ mmPc = "done"
    /\ mmQueue = "Q"
    /\ NamedTwiceMixed
    /\ ~FirstNamed.MappingPolicy
    /\ mmErrors = <<>>

\* the document with every bare entry replaced by a list of that one entry
AsOneElementList(doc) == IF doc.isList THEN doc ELSE ListOf(<<doc.object>>)
OneElementLists ==
    [ComputingShare |-> AsOneElementList(ceInfo.ComputingShare),
     ApplicationEnvironment |-> AsOneElementList(ceInfo.ApplicationEnvironment)]

\* C11: matchJob returns for a document that holds a share, or an
\* application environment, as a bare object the violations it returns
\* for the document that holds the same entry as a one-element list.
C11_SingletonSameAsList ==
    mmPc = "done" =>
        mmErrors = MatchJob(OneElementLists, mmQueue, mmRuntimes, mmWalltime)

\* a bare share and a bare environment, both matching the request
C11_Witness ==
    /\ mmPc = "done"
    /\ ~ceInfo.ComputingShare.isList
    /\ ~ceInfo.ApplicationEnvironment.isList
    /\ ceInfo.ComputingShare.object.Name = "Q"
    /\ ~ceInfo.ComputingShare.object.MappingPolicy
    /\ mmQueue = "Q"
    /\ mmRuntimes = <<<<"a">>>>
    /\ mmWalltime = 3
    /\ mmErrors = <<>>

\* the advertised application environments, and the names they offer:
\* AppName, or AppName-AppVersion
AdvertisedEnvs ==
    IF ceInfo.ApplicationEnvironment.isList
    THEN {ceInfo.ApplicationEnvironment.items[k] :
            k \in 1..Len(ceInfo.ApplicationEnvironment.items)}
    ELSE {ceInfo.ApplicationEnvironment.object}
AdvertisedRuntimes ==
    {e.AppName : e \in {x \in AdvertisedEnvs : ~x.hasAppVersion}}
        \cup {e.AppName \o <<"-">> \o e.AppVersion :
                e \in {x \in AdvertisedEnvs : x.hasAppVersion}}

\* the positions of the requested runtimes that are not advertised
MissingRuntimes ==
    {k \in 1..Len(mmRuntimes) : mmRuntimes[k] \notin AdvertisedRuntimes}

\* the violations of the runtime checks
RuntimeErrors == SelectSeq(mmErrors, LAMBDA e : e = "Runtime not found")

\* the queue and walltime checks apply and do not pass
QueueOrWalltimeFails ==
    /\ mmQueue # ""
    /\ \/ ~FindQueue(ceInfo, mmQueue).found
       \/ /\ mmWalltime \notin {-1, 0}
          /\ FindQueue(ceInfo, mmQueue).share.hasMaxWallTime
          /\ mmWalltime > ParseInt(FindQueue(ceInfo, mmQueue).share.MaxWallTime)

\* C12: matchJob returns the violations of the queue and walltime checks
\* followed by one runtime violation for each requested runtime that is not
\* advertised, whether or not the queue or walltime check failed; the
\* result is empty exactly when every applicable check passes.
C12_AllViolationsReported ==
    mmPc = "done" =>
        /\ mmErrors = QueueAndWalltimeErrors \o RuntimeErrors
        /\ Len(RuntimeErrors) = Cardinality(MissingRuntimes)
        /\ (QueueAndWalltimeErrors # <<>>) <=> QueueOrWalltimeFails
        /\ (mmErrors = <<>>) <=>
                (~QueueOrWalltimeFails /\ MissingRuntimes = {})

\* the queue check fails and two requested runtimes are not advertised
C12_Witness ==
    /\ mmPc = "done"
    /\ mmQueue = "Q"
    /\ ~FindQueue(ceInfo, "Q").found
    /\ mmWalltime = -1
    /\ mmRuntimes = <<<<"b">>, <<"b">>>>
    /\ AdvertisedRuntimes # {}
    /\ mmErrors = <<"Queue not found", "Runtime not found", "Runtime not found">>

(***************************************************************************)
(* Properties of the upload engine.                                        *)
(***************************************************************************)
\* the position of an input in its job's inputFiles, which is the order in
\* which the job's transfers are queued
InputIndex(t) == t.name[1][2]

QueuedAfter(t, e) == t.jobid = e.jobid /\ InputIndex(t) > InputIndex(e)

\* C5 as claimed: no input of a job queued after an input of that job whose
\* upload failed is ever passed to uploadFile, whatever the number of
\* workers.
C5_LaterInputNeverUploaded ==
    \A e \in upErrorQueue : \A t \in uploadFileLog : ~QueuedAfter(t, e)

\* C5 amended: an input passes the cancellation check only while no upload
\* failure of its job has been recorded, and with a single upload worker no
\* input queued after a failed one is passed to uploadFile.
C5_NoUploadAfterRecordedFailure ==
    /\ [](upWorkers = 1 => C5_LaterInputNeverUploaded)
    /\ [][\A w \in UpWorkerIds :
            (upPc[w] = "claimed" /\ upPc'[w] = "checked") =>
                ~\E e \in upErrorQueue : e.jobid = upload[w].jobid]_vars

\* the second of job A's three inputs failed, the third was claimed and
\* skipped, and an input of job B was uploaded
C5_Witness ==
    /\ [jobid |-> "A", name |-> <<<<"i", 2>>>>, error |-> "error"]
            \in upErrorQueue
    /\ Transfer("A", <<<<"i", 3>>>>, "file") \in skipLog
    /\ Transfer("A", <<<<"i", 3>>>>, "file") \notin uploadFileLog
    /\ \E t \in uploadFileLog : t.jobid = "B"
    /\ \A w \in UpWorkerIds : upPc[w] \in {"done", "off"}

(***************************************************************************)
(* getClient.                                                              *)
(***************************************************************************)
\* the API versions a CE can advertise
Versions == {"1.0", "1.1", "1.2"}

\* the answers of GET /rest: the status and the value of "version", a list
\* of versions or a single bare version
VersionDocuments ==
    [status : {200, 500},
     version : {ListOf(l) :
                    l \in UNION {[1..n -> Versions] : n \in 0..MaxVersions}}
                \cup {ObjectOf(v) : v \in Versions}]

\* _getImplementations
DefaultImplementations == {"1.0", "1.1"}

\* if not implementations: implementations = cls._getImplementations()
Implementations(impls) == IF impls = {} THEN DefaultImplementations ELSE impls

\* getAPIVersionsStatic: the list it returns
APIVersions(value) == IF value.isList THEN value.items ELSE <<value.object>>

\* version in apiVersions
AmongAny(version, apiVersions) == TRUE
Among(version, apiVersions) ==
    \E k \in 1..Len(apiVersions) : apiVersions[k] = version

RECURSIVE LastImplemented(_, _, _)
\* the loop over reversed(apiVersions), at position k: the first version
\* found in implementations, "" (None) if there is none
LastImplemented(apiVersions, implementations, k) ==
    IF k = 0 THEN ""
    ELSE IF apiVersions[k] \in implementations THEN apiVersions[k]
    ELSE LastImplemented(apiVersions, implementations, k - 1)

GcInit ==
    /\ gcDocument \in VersionDocuments
    /\ gcVersion \in {""} \cup Versions
    /\ gcImpls \in SUBSET Versions
    /\ gcPc = "call"
    /\ gcApiVersions = <<>>
    /\ gcClient = ""
    /\ gcRaised = ""

\* getClient raises
GcRaise(error) ==
    /\ gcPc' = "raised"
    /\ gcRaised' = error
    /\ UNCHANGED gcClient

\* getClient returns implementations[apiVersion](...)
GcReturn(apiVersion) ==
    /\ gcPc' = "returned"
    /\ gcClient' = apiVersion
    /\ UNCHANGED gcRaised

\* apiVersions = cls.getAPIVersionsStatic(...); if not apiVersions: raise
GetAPIVersions ==
    /\ UNCHANGED gcOthers
    /\ gcPc = "call"
    /\ UNCHANGED <<gcDocument, gcVersion, gcImpls>>
    /\ IF gcDocument.status # 200
       THEN GcRaise("ARCHTTPError") /\ UNCHANGED gcApiVersions
       ELSE /\ gcApiVersions' = APIVersions(gcDocument.version)
            /\ IF gcApiVersions' = <<>>
               THEN GcRaise("No supported API versions on CE")
               ELSE gcPc' = "select" /\ UNCHANGED <<gcClient, gcRaised>>

\* the choice of the API version and the return of the client
SelectVersion ==
    /\ UNCHANGED gcOthers
    /\ gcPc = "select"
    /\ UNCHANGED <<gcDocument, gcVersion, gcImpls, gcApiVersions>>
    /\ LET implementations == Implementations(gcImpls) IN
       IF gcVersion # ""
       THEN IF gcVersion \notin implementations
            THEN GcRaise("No client support for requested API version")
            ELSE IF ~Among(gcVersion, gcApiVersions)
            THEN GcRaise("API version not among CE supported API versions")
            ELSE GcReturn(gcVersion)
       ELSE LET apiVersion ==
                    LastImplemented(gcApiVersions, implementations,
                                    Len(gcApiVersions))
            IN  IF apiVersion = ""
                THEN GcRaise("No client support for CE supported API versions")
                ELSE GcReturn(apiVersion)

GcIdle ==
    /\ gcDocument = [status |-> 200, version |-> ListOf(<<>>)]
    /\ gcVersion = ""
    /\ gcImpls = {}
    /\ gcPc = "off"
    /\ gcApiVersions = <<>>
    /\ gcClient = ""
    /\ gcRaised = ""

(***************************************************************************)
(* Properties of getClient.                                                *)
(***************************************************************************)
\* the versions the server advertises
AdvertisedVersions ==
    IF gcDocument.status # 200 THEN {}
    ELSE IF gcDocument.version.isList
    THEN {gcDocument.version.items[k] : k \in 1..Len(gcDocument.version.items)}
    ELSE {gcDocument.version.object}

\* the local implementation map
ImplementedVersions == IF gcImpls = {} THEN {"1.0", "1.1"} ELSE gcImpls

\* the versions both advertised and implemented
MutualVersions == AdvertisedVersions \cap ImplementedVersions

GcFinished == gcPc \in {"returned", "raised"}

\* C13: getClient returns a client only for a version that is implemented
\* and advertised; with a version requested it returns a client of that
\* version or raises; with none requested and no advertised version that
\* is implemented it raises.
C13_NoSilentFallback ==
    /\ gcPc = "returned" =>
            (gcClient \in MutualVersions /\ gcVersion \in {"", gcClient})
    /\ gcPc = "raised" => (gcClient = "" /\ gcRaised # "")
    /\ (GcFinished /\ gcVersion # "" /\ gcVersion \notin MutualVersions) =>
            gcPc = "raised"
    /\ (GcFinished /\ gcVersion = "" /\ MutualVersions = {}) =>
            gcPc = "raised"

\* no version requested, and the only advertised version is not implemented
C13_Witness ==
    /\ gcPc = "raised"
    /\ gcVersion = ""
    /\ gcImpls = {}
    /\ AdvertisedVersions = {"1.2"}
    /\ gcRaised = "No client support for CE supported API versions"

\* the order of the versions
VersionOrder == <<"1.0", "1.1", "1.2">>
Rank(v) == CHOOSE k \in 1..Len(VersionOrder) : VersionOrder[k] = v

\* C14 as claimed: with no version requested the client returned is of the
\* highest version that is both advertised and implemented, whatever the
\* order of the advertised list.
C14_BindsMaximum ==
    (gcPc = "returned" /\ gcVersion = "") =>
        \A v \in MutualVersions : Rank(v) <= Rank(gcClient)

(***************************************************************************)
(* Job management operations.                                              *)
(***************************************************************************)
JobIds == {"j1", "j2"}
ManageActions == {"info", "status", "kill", "clean", "restart", "delegations"}

\* the "status-code" texts of a response
StatusCodes == {<<2, 0, 0>>, <<2, 0, 2>>, <<4, 0, 4>>}

\* the value of a response: "info_document", "state" or "delegation_id";
\* a delegation_id is a list of ids or a single bare id
ResponseValues(action) ==
    IF action = "delegations"
    THEN {ObjectOf("d1"), ListOf(<<"d1">>), ListOf(<<"d1", "d2">>)}
    ELSE {ObjectOf("v")}

\* the responses the CE can give for job id
JobResponses(action, id) ==
    [id : {id}, statusCode : StatusCodes, hasValue : {TRUE},
     value : ResponseValues(action)]
    \cup [id : {id}, statusCode : StatusCodes, hasValue : {FALSE},
          value : {ObjectOf("")}]

\* the answers of the CE to POST /jobs?action=...: one response per job of
\* the request, in the order of the request; a single response comes in a
\* list or as a bare object
ManageAnswers(action, jobs) ==
    LET lists == {l \in [1..Len(jobs) ->
                            UNION {JobResponses(action, id) : id \in JobIds}] :
                    \A k \in 1..Len(jobs) : l[k].id = jobs[k]}
    IN  [status : {201, 500},
         job : {ListOf(l) : l \in lists}
                \cup (IF Len(jobs) = 1 THEN {ObjectOf(l[1]) : l \in lists}
                      ELSE {})]

\* the outcomes of the operations
HTTPError(code) == [error |-> "ARCHTTPError", code |-> code]
NoValue == [error |-> "NoValueInARCResult"]
Success(value) == [value |-> value]

\* _parseJobInfo
ParseJobInfo(document) == <<"JobInfo", document>>

\* the status code of a successful response
SuccessCode(action) ==
    IF action \in {"info", "status", "delegations"} THEN 200 ELSE 202

\* the result the operation appends for one response
Outcome(action, response) ==
    LET code == ParseInt(response.statusCode) IN
    IF code # SuccessCode(action) THEN HTTPError(code)
    ELSE IF action \in {"kill", "clean", "restart"} THEN Success(TRUE)
    ELSE IF ~response.hasValue THEN NoValue
    ELSE IF action = "info" THEN Success(ParseJobInfo(response.value.object))
    ELSE IF action = "status" THEN Success(response.value.object)
    ELSE Success(AsList(response.value))

\* _manageJobs: the list made of jsonData["job"]
ResponsesUnwrapped(job) == IF job.isList THEN job.items ELSE <<>>
Responses(job) == IF job.isList THEN job.items ELSE <<job.object>>

\* zip(jobs, responses)
Zip(jobs, responses) ==
    [k \in 1..Min(Len(jobs), Len(responses)) |-> <<jobs[k], responses[k]>>]

MjInit ==
    /\ mjJobs \in UNION {[1..n -> JobIds] : n \in 0..MaxJobs}
    /\ mjAction \in ManageActions
    /\ mjAnswer \in ManageAnswers(mjAction, mjJobs)
    /\ mjPc = "call"
    /\ mjResponses = <<>>
    /\ mjResults = <<>>
    /\ mjRaised = ""

\* responses = self._manageJobs(jobs, action)
ManageJobs ==
    /\ UNCHANGED mjOthers
    /\ mjPc = "call"
    /\ UNCHANGED <<mjJobs, mjAction, mjAnswer, mjResults>>
    /\ IF mjJobs = <<>>
       THEN mjResponses' = <<>> /\ mjPc' = "responses" /\ UNCHANGED mjRaised
       ELSE IF mjAnswer.status # 201
       THEN /\ mjPc' = "raised"
            /\ mjRaised' = "ARCHTTPError"
            /\ UNCHANGED mjResponses
       ELSE /\ mjResponses' = Responses(mjAnswer.job)
            /\ mjPc' = "responses"
            /\ UNCHANGED mjRaised

\* the loop over zip(jobs, responses) and the return of results
ManageResults ==
    /\ UNCHANGED mjOthers
    /\ mjPc = "responses"
    /\ UNCHANGED <<mjJobs, mjAction, mjAnswer, mjResponses, mjRaised>>
    /\ LET pairs == Zip(mjJobs, mjResponses)
       IN  mjResults' = [k \in 1..Len(pairs) |-> Outcome(mjAction, pairs[k][2])]
    /\ mjPc' = "returned"

MjIdle ==
    /\ mjJobs = <<>>
    /\ mjAction = "info"
    /\ mjAnswer = [status |-> 201, job |-> ListOf(<<>>)]
    /\ mjPc = "off"
    /\ mjResponses = <<>>
    /\ mjResults = <<>>
    /\ mjRaised = ""

(***************************************************************************)
(* Properties of the job management operations.                            *)
(***************************************************************************)
\* the response of the CE for the job at position i of the request
ResponseAt(i) ==
    IF mjAnswer.job.isList THEN mjAnswer.job.items[i] ELSE mjAnswer.job.object

\* the outcome that belongs to the job at position i: a coded error when the
\* response has not the status code of success, else the value of the
\* response, or an error when the response has no value
OutcomeAt(i) ==
    LET r == ResponseAt(i)
        code == ParseInt(r.statusCode)
        expected == IF mjAction \in {"kill", "clean", "restart"} THEN 202
                    ELSE 200
    IN  IF code # expected THEN [error |-> "ARCHTTPError", code |-> code]
        ELSE IF mjAction \in {"kill", "clean", "restart"} THEN [value |-> TRUE]
        ELSE IF ~r.hasValue THEN [error |-> "NoValueInARCResult"]
        ELSE IF mjAction = "info" THEN [value |-> <<"JobInfo", r.value.object>>]
        ELSE IF mjAction = "status" THEN [value |-> r.value.object]
        ELSE [value |-> IF r.value.isList THEN r.value.items
                        ELSE <<r.value.object>>]

MjFinished == mjPc \in {"returned", "raised"}

\* C15 as claimed: for a non-empty list of n job ids every management
\* operation returns n outcomes, outcome i belonging to job i.
C15_OneOutcomePerJob ==
    (MjFinished /\ mjJobs # <<>>) =>
        /\ mjPc = "returned"
        /\ Len(mjResults) = Len(mjJobs)
        /\ \A i \in 1..Len(mjJobs) : mjResults[i] = OutcomeAt(i)

\* C15 amended: when the CE answers the request of the operation with
\* status 201 the operation returns n outcomes, outcome i belonging to job
\* i, the same for a single response given as bare object or as list; with
\* any other status the operation raises and returns no outcome.
C15_OneOutcomePerJobUnlessRaised ==
    (MjFinished /\ mjJobs # <<>>) =>
        IF mjAnswer.status = 201
        THEN /\ mjPc = "returned"
             /\ Len(mjResults) = Len(mjJobs)
             /\ \A i \in 1..Len(mjJobs) : mjResults[i] = OutcomeAt(i)
        ELSE /\ mjPc = "raised"
             /\ mjRaised = "ARCHTTPError"
             /\ mjResults = <<>>

\* one job, its response given as a bare object with a bare delegation id
C15_Witness ==
    /\ mjPc = "returned"
    /\ mjJobs = <<"j2">>
    /\ mjAction = "delegations"
    /\ ~mjAnswer.job.isList
    /\ mjAnswer.job.object.value = ObjectOf("d1")
    /\ mjResults = <<[value |-> <<"d1">>]>>

\* the transfers of job j in the queue, held by a worker, uploaded or skipped
TransfersOf(j) ==
    {t \in {uploadQueue[k] : k \in 1..Len(uploadQueue)}
            \cup {upload[w] : w \in UpWorkerIds}
            \cup uploadFileLog \cup skipLog : t.jobid = j}

\* an input of job j names a local source that is not a file, or a source
\* that cannot be parsed
Rejected(j) ==
    \E i \in 1..Len(jobInputs[j]) :
        jobInputs[j][i] \in {"missing", "unparsable"}

\* C16: a job with an input whose local source is not a file or whose
\* source cannot be parsed has no transfer at all, in the queue or with a
\* worker, and has exactly one InputFileError; every local input of the
\* other jobs of the call has its transfer.
C16_ValidationAllOrNothing ==
    \A j \in UpJobs :
        IF Rejected(j)
        THEN /\ TransfersOf(j) = {}
             /\ upResultDict[j] = <<"InputFileError">>
             /\ \A e \in upErrorQueue : e.jobid # j
        ELSE /\ \A k \in 1..Len(upResultDict[j]) :
                    upResultDict[j][k] # "InputFileError"
             /\ \A i \in 1..Len(jobInputs[j]) :
                    (jobInputs[j][i] = "local") <=>
                        (Transfer(j, <<<<"i", i>>>>, "file") \in TransfersOf(j))

\* job A's first input is a local file and its second is not a file; the
\* input of job B has been uploaded and the workers are done
C16_Witness ==
    /\ Len(jobInputs["A"]) >= 2
    /\ jobInputs["A"][1] = "local"
    /\ jobInputs["A"][2] = "missing"
    /\ upResultDict["A"] = <<"InputFileError">>
    /\ Transfer("B", <<<<"i", 1>>>>, "file") \in uploadFileLog
    /\ \A w \in UpWorkerIds : upPc[w] \in {"done", "off"}

\* the calls of uploadJobFiles, and of createJobs that returned, made by
\* the call of submitJobs
UploadCalls ==
    {k \in 1..Len(sjCalls) : sjCalls[k].call = "uploadJobFiles"}
CreateCalls ==
    {k \in 1..Len(sjCalls) : sjCalls[k].call = "createJobs"}

\* the description a job id was created from
DescriptionOf(jobid) == jobid[2]

\* C17: when submitJobs returns, the entry of every job given to
\* uploadJobFiles is a single InputUploadError with the job id, the state
\* returned at submission and the upload errors if uploadJobFiles returned
\* errors for the job, and is (job id, state) if it returned none.
C17_UploadErrorKeepsJob ==
    sjPc = "returned" =>
        \A c \in UploadCalls : \A k \in 1..Len(sjCalls[c].args) :
            LET jobid == sjCalls[c].args[k]
                errors == sjCalls[c].result[k]
                entry == sjReturn[DescriptionOf(jobid)]
            IN  IF errors # <<>>
                THEN /\ entry.kind = "errors"
                     /\ entry.errors = <<"InputUploadError">>
                     /\ entry.jobid = jobid
                     /\ entry.state = "ACCEPTING"
                     /\ entry.uploadErrors = errors
                ELSE /\ entry.kind = "job"
                     /\ entry.jobid = jobid
                     /\ entry.state = "ACCEPTING"

\* two jobs were created, the upload of the first failed with two errors
C17_Witness ==
    /\ sjPc = "returned"
    /\ Len(descs) = 2
    /\ \E c \in UploadCalls : sjCalls[c].result = <<<<"e1", "e2">>, <<>>>>
    /\ sjReturn[1].errors = <<"InputUploadError">>
    /\ sjReturn[1].uploadErrors = <<"e1", "e2">>
    /\ sjReturn[2] = Job(JobIdOf(2), "ACCEPTING")

\* the ids of the jobs the CE accepted, in the order of the bulk document
RECURSIVE AcceptedJobIds(_, _)
AcceptedJobIds(results, k) ==
    IF k > Len(results) THEN <<>>
    ELSE (IF results[k].kind = "job" THEN <<results[k].jobid>> ELSE <<>>)
            \o AcceptedJobIds(results, k + 1)

\* description i was parsed, matched and unparsed
Submittable(i) ==
    /\ descs[i].parse
    /\ matchDescs => descs[i].match
    /\ descs[i].unparse

\* C18: uploadJobFiles is called at most once, only when uploadData is set
\* and after createJobs returned, with exactly the ids of the jobs the CE
\* accepted; each of them is the job of a description that was parsed,
\* matched and unparsed.
C18_UploadOnlyAccepted ==
    /\ Cardinality(UploadCalls) <= 1
    /\ ~uploadData => UploadCalls = {}
    /\ \A c \in UploadCalls :
        /\ \E k \in CreateCalls :
            /\ k < c
            /\ sjCalls[c].args = AcceptedJobIds(sjCalls[k].result, 1)
        /\ \A k \in 1..Len(sjCalls[c].args) :
            Submittable(DescriptionOf(sjCalls[c].args[k]))
    /\ (sjPc = "returned" /\ uploadData /\ CreateCalls # {}) =>
            UploadCalls # {}

\* of two descriptions the first fails to parse and the job of the second
\* is accepted and is the only one given to uploadJobFiles
C18_Witness ==
    /\ sjPc = "returned"
    /\ uploadData
    /\ Len(descs) = 2
    /\ ~descs[1].parse
    /\ \E c \in UploadCalls : sjCalls[c].args = <<JobIdOf(2)>>

(***************************************************************************)
(* Properties of the download engine with output filters and of the        *)
(* errors of leaf downloads.                                               *)
(***************************************************************************)
\* every transfer created so far: put into the queue or about to be put
CreatedTransfers ==
    putLog \cup UNION {{pending[w][k] : k \in 1..Len(pending[w])} :
                        w \in WorkerIds}

\* the directories above name
DirsAbove(name) == {SubSeq(name, 1, n) : n \in 1..(Len(name) - 1)}

\* C19: with output filters for the job, a sub-directory the listing
\* filter rejects never gets a listing transfer and is never listed, no
\* transfer is created for anything beneath it, and a file the file filter
\* rejects never gets a file transfer.
C19_FilteredOutNeverListed ==
    \A t \in CreatedTransfers \cup DOMAIN claimLog :
        LET filters == outputFilters[t.jobid] IN
        /\ (t.type = "listing" /\ t.name # <<>>) =>
                ~FilterOutListing(filters, t.name)
        /\ t.type = "file" => ~FilterOutFile(filters, t.name)
        /\ \A d \in DirsAbove(t.name) : ~FilterOutListing(filters, d)

\* the filter names only the root file f1: the sub-directory d1 and the
\* file f2 of the root were never put, and the workers are done
C19_Witness ==
    /\ outputFilters["A"] = <<[path |-> <<<<"f", 1>>>>, slash |-> FALSE]>>
    /\ remote.rf = MaxFiles
    /\ remote.sf = 1
    /\ putLog = {Transfer("A", <<>>, "listing"),
                 Transfer("A", <<<<"f", 1>>>>, "file")}
    /\ \A w \in Workers : pc[w] = "done"

\* the error a failed download has to record
ExpectedError(l) ==
    IF l.reply = "malformed" THEN "Exception"
    ELSE IF l.reply # "404" THEN "error"
    ELSE IF l.type = "file" THEN "MissingOutputFile"
    ELSE "MissingDiagnoseFile"

\* the errors recorded for the task of a leaf download
RecordedFor(l) == {e \in errorQueue : e.jobid = l.jobid /\ e.name = l.name}

\* C20: a leaf download that failed with status 404 has the missing file
\* error of its type recorded, one that failed otherwise has its error
\* recorded as it is, a successful one has none, as long as the errors have
\* not been taken out of errorQueue again; a leaf download adds at most one
\* error and the worker goes on to get the next transfer.
C20_LeafErrors ==
    /\ [](dlMain = "wait" => \A l \in downloadLog :
            RecordedFor(l) =
                IF l.reply = "ok" THEN {}
                ELSE {[jobid |-> l.jobid, name |-> l.name,
                       error |-> ExpectedError(l)]})
    /\ [][\A w \in WorkerIds :
            (pc[w] = "claimed" /\ transfer[w].type \in {"file", "diagnose"}
                    /\ pc'[w] # "claimed") =>
                /\ pc'[w] = "get"
                /\ errorQueue \subseteq errorQueue'
                /\ Cardinality(errorQueue') <= Cardinality(errorQueue) + 1]_vars

\* a diagnose download failed with 404, and the workers went on to the end
C20_Witness ==
    /\ \E l \in downloadLog : l.type = "diagnose" /\ l.reply = "404"
    /\ \E e \in errorQueue : e.error = "MissingDiagnoseFile"
    /\ Cardinality(errorQueue) = 1
    /\ Cardinality(putLog) >= 3
    /\ \A w \in Workers : pc[w] = "done"

(***************************************************************************)
(* Properties of cancellation in the two transfer engines.                 *)
(***************************************************************************)
\* C21: in both transfer directions the cancellation flag of a job is set
\* as soon as a worker has recorded the failure of one of the job's tasks,
\* so that the tasks of the job claimed afterwards are skipped.
C21_FailureSetsFlag ==
    /\ \A e \in errorQueue : dlCancelEvent[e.jobid]
    /\ \A e \in upErrorQueue : cancelEvent[e.jobid]

\* an upload of a task of job j has failed
UploadFailed(j) == \E t \in uploadFailLog : t.jobid = j

\* the inputs of job j that passed validation: its local inputs, if none of
\* its inputs was rejected
ValidatedInputs(j) ==
    IF Rejected(j) THEN {}
    ELSE {Transfer(j, <<<<"i", i>>>>, "file") :
            i \in {k \in 1..Len(jobInputs[j]) : jobInputs[j][k] = "local"}}

\* C22: cancellation is per job: the flag of a job is set, and a task of a
\* job is skipped, only if an upload of that same job has failed, under
\* every interleaving of the workers; when uploadJobFiles returns every
\* validated input of a job none of whose uploads failed has been passed to
\* uploadFile, and no input is passed to uploadFile a second time.
C22_CancellationPerJob ==
    /\ [](\A j \in UpJobs :
            /\ cancelEvent[j] => UploadFailed(j)
            /\ (\E t \in skipLog : t.jobid = j) => UploadFailed(j)
            /\ (upMain = "returned" /\ ~UploadFailed(j)) =>
                    /\ ValidatedInputs(j) \subseteq uploadFileLog
                    /\ \A t \in skipLog : t.jobid # j)
    /\ [][\A w \in UpWorkerIds :
            (upPc[w] = "checked" /\ upPc'[w] = "uploading") =>
                upload[w] \notin uploadFileLog]_vars

\* job A's upload failed and a later input of A was skipped, while the
\* input of job B was uploaded and B's flag is not set
C22_Witness ==
    /\ upMain = "returned"
    /\ cancelEvent["A"] /\ ~cancelEvent["B"]
    /\ \E t \in skipLog : t.jobid = "A"
    /\ Transfer("B", <<<<"i", 1>>>>, "file") \in uploadFileLog
    /\ ~UploadFailed("B")

(***************************************************************************)
(* HTTPClient.request (src/src/pyarcrest/http.py).                         *)
(***************************************************************************)
Methods == {"GET", "POST", "PUT", "DELETE"}

\* what can come of self.conn.request(...) followed by self.conn.getresponse():
\* a response, or one of the exceptions
ConnectionDropped ==
    {"RemoteDisconnected", "BrokenPipeError", "ConnectionAbortedError",
     "ConnectionResetError"}
OtherErrors == {"ConnectionRefusedError", "TimeoutError"}
AttemptOutcomes == {"response"} \cup ConnectionDropped \cup OtherErrors

\* the headers of the request: Authorization with a token, Content-Type
\* with jsonData
Headers(args) ==
    (IF args.token THEN {"Authorization"} ELSE {})
        \cup (IF args.jsonData THEN {"Content-Type"} ELSE {})

\* the request given to self.conn.request
HTTPRequest(args) ==
    [method |-> args.method, headers |-> Headers(args),
     body |-> IF args.jsonData THEN "json" ELSE "data"]

\* except (RemoteDisconnected, BrokenPipeError, ConnectionAbortedError,
\*         ConnectionResetError)
RetriedAlways(error) == TRUE
Retried(error) ==
    error \in {"RemoteDisconnected", "BrokenPipeError",
               "ConnectionAbortedError", "ConnectionResetError"}

\* a headers dict: the value of each header, "" when the dict has no such
\* key
NoHeaders == [Authorization |-> "", Accept |-> "", ContentType |-> ""]

\* the ARCRest instances: two with a token of their own, one authenticated
\* by a proxy certificate
Clients ==
    {[name |-> "T1", token |-> "t1"], [name |-> "T2", token |-> "t2"],
     [name |-> "P", token |-> ""]}

\* the functions called without a headers argument: def ...(headers={})
RequestFunctions == {"_requestJSON", "_request"}

\* the headers argument of a call: left out, or a new dict with the content
\* type of a job description
HeaderArgs == {"default", "xml"}

NoRequest ==
    [client |-> "", token |-> "", fn |-> "", arg |-> "", jsonData |-> FALSE,
     headers |-> NoHeaders]

\* the function objects are created with empty default dicts
HdInit ==
    /\ hdDefaults = [fn \in RequestFunctions |-> NoHeaders]
    /\ hdSent = NoRequest

\* the dict the parameter headers of fn is bound to: the default dict of the
\* function object when the argument is left out
HeadersParameter(defaults, fn, arg) ==
    IF arg = "default" THEN defaults[fn]
    ELSE [NoHeaders EXCEPT !.ContentType = "application/xml"]

\* the assignments to headers on the way to self.conn.request:
\* headers["Accept"] in _requestJSON, headers['Authorization'] and
\* headers['Content-Type'] in HTTPClient.request
SetHeaders(headers, fn, tok, jsonData) ==
    LET accept == IF fn = "_requestJSON"
                  THEN [headers EXCEPT !.Accept = "application/json"]
                  ELSE headers
        auth == IF tok # "" THEN [accept EXCEPT !.Authorization = tok]
                ELSE accept
    IN  IF jsonData THEN [auth EXCEPT !.ContentType = "application/json"]
        ELSE auth

\* a client calls _requestJSON or _request; the token is the client's
\* (if not token: token = self.token).  The assignments change the dict the
\* parameter is bound to.
HdCall ==
    /\ hrPc = "off"
    /\ UNCHANGED hrOthers
    /\ \E client \in Clients, fn \in RequestFunctions, arg \in HeaderArgs,
          jsonData \in BOOLEAN :
          LET headers == SetHeaders(HeadersParameter(hdDefaults, fn, arg),
                                    fn, client.token, jsonData)
          IN  /\ hdSent' = [client |-> client.name, token |-> client.token,
                            fn |-> fn, arg |-> arg, jsonData |-> jsonData,
                            headers |-> headers]
              /\ hdDefaults' = IF arg = "default"
                               THEN [hdDefaults EXCEPT ![fn] = headers]
                               ELSE hdDefaults
    /\ UNCHANGED <<hrArgs, hrPc, hrAttempts, hrClosed, hrRaised>>

HrInit ==
    /\ hrArgs \in [method : Methods, token : BOOLEAN, jsonData : BOOLEAN]
    /\ hrPc = "call"
    /\ hrAttempts = <<>>
    /\ hrClosed = FALSE
    /\ hrRaised = ""
    /\ HdInit

\* self.close(); raise
CloseAndRaise(error) ==
    /\ hrClosed' = TRUE
    /\ hrRaised' = error
    /\ hrPc' = "raised"

\* the first try block: the request is sent; a response is returned, a
\* dropped connection leads to the retry, any other exception closes the
\* connection and is raised
HrRequest ==
    /\ UNCHANGED hrOthers
    /\ hrPc = "call"
    /\ UNCHANGED <<hrArgs, hdDefaults, hdSent>>
    /\ \E outcome \in AttemptOutcomes :
          /\ hrAttempts' = Append(hrAttempts, [request |-> HTTPRequest(hrArgs),
                                               outcome |-> outcome])
          /\ IF outcome = "response"
             THEN hrPc' = "returned" /\ UNCHANGED <<hrClosed, hrRaised>>
             ELSE IF Retried(outcome)
             THEN hrPc' = "retry" /\ UNCHANGED <<hrClosed, hrRaised>>
             ELSE CloseAndRaise(outcome)

\* the retry: the same request is sent again; a response is returned, any
\* exception closes the connection and is raised
HrRetry ==
    /\ UNCHANGED hrOthers
    /\ hrPc = "retry"
    /\ UNCHANGED <<hrArgs, hdDefaults, hdSent>>
    /\ \E outcome \in AttemptOutcomes :
          /\ hrAttempts' = Append(hrAttempts, [request |-> HTTPRequest(hrArgs),
                                               outcome |-> outcome])
          /\ IF outcome = "response"
             THEN hrPc' = "returned" /\ UNCHANGED <<hrClosed, hrRaised>>
             ELSE CloseAndRaise(outcome)

HrIdle ==
    /\ hrArgs = [method |-> "GET", token |-> FALSE, jsonData |-> FALSE]
    /\ hrPc = "off"
    /\ hrAttempts = <<>>
    /\ hrClosed = FALSE
    /\ hrRaised = ""
    /\ HdInit

(***************************************************************************)
(* Properties of HTTPClient.request.                                       *)
(***************************************************************************)
HrFinished == hrPc \in {"returned", "raised"}

\* the first attempt ended with a dropped connection
FirstDropped ==
    /\ hrAttempts # <<>>
    /\ hrAttempts[1].outcome \in ConnectionDropped

LastOutcome == hrAttempts[Len(hrAttempts)].outcome

\* C23: request sends the request at most twice, the second time exactly
\* when the first attempt ended with a dropped connection, and the retry
\* sends the same request; the call returns the response of its last
\* attempt, or, after a failed retry or any other error of the first
\* attempt, closes the connection and raises that error.
C23_RetryOnce ==
    /\ Len(hrAttempts) <= 2
    /\ hrPc = "retry" => (Len(hrAttempts) = 1 /\ FirstDropped /\ ~hrClosed)
    /\ HrFinished =>
        /\ Len(hrAttempts) = (IF FirstDropped THEN 2 ELSE 1)
        /\ \A k \in 1..Len(hrAttempts) :
                hrAttempts[k].request = hrAttempts[1].request
        /\ IF LastOutcome = "response"
           THEN hrPc = "returned" /\ ~hrClosed /\ hrRaised = ""
           ELSE hrPc = "raised" /\ hrClosed /\ hrRaised = LastOutcome

\* the connection was dropped, and the retry timed out
C23_Witness ==
    /\ hrPc = "raised"
    /\ Len(hrAttempts) = 2
    /\ hrAttempts[1].outcome = "RemoteDisconnected"
    /\ hrAttempts[2].outcome = "TimeoutError"
    /\ hrRaised = "TimeoutError"
    /\ hrClosed

(***************************************************************************)
(* Properties of the results of uploadJobFiles and downloadJobFiles.       *)
(***************************************************************************)
\* how many times x occurs in list
Count(list, x) == Cardinality({k \in 1..Len(list) : list[k] = x})

\* the kinds of error of the two calls
ErrorKinds ==
    {"InputFileError", "ARCError", "error", "Exception",
     "MissingOutputFile", "MissingDiagnoseFile"}

\* how many errors of kind x the tasks and the validation of job j have
\* caused in the call of uploadJobFiles
UploadErrorsOf(j, x) ==
    IF x = "InputFileError" THEN (IF Rejected(j) THEN 1 ELSE 0)
    ELSE IF x = "error" THEN Cardinality({t \in uploadFailLog : t.jobid = j})
    ELSE 0

\* the same for the call of downloadJobFiles
DownloadErrorsOf(j, x) ==
    IF x = "ARCError"
    THEN (IF \E i \in 1..Len(diagnoseFiles[j]) : diagnoseFiles[j][i][1] = "x"
          THEN 1 ELSE 0)
    ELSE Cardinality({l \in downloadLog :
            l.jobid = j /\ l.reply # "ok" /\ ExpectedError(l) = x})

\* list holds n(x) errors of every kind x and nothing else
HoldsExactly(list, n(_)) ==
    /\ \A x \in ErrorKinds : Count(list, x) = n(x)
    /\ \A k \in 1..Len(list) : list[k] \in ErrorKinds

\* C24: uploadJobFiles and downloadJobFiles return one error list per
\* requested job id, in the order of the job ids; the list of a job holds
\* every error of the validation and of the tasks of that job and no error
\* of another job, and is empty for a job without failure.
C24_OneErrorListPerJob ==
    /\ upMain = "returned" =>
        /\ Len(upReturn) = Len(UpJobIds)
        /\ \A k \in 1..Len(UpJobIds) :
            HoldsExactly(upReturn[k], LAMBDA x : UploadErrorsOf(UpJobIds[k], x))
    /\ dlMain = "returned" =>
        /\ Len(dlReturn) = Len(dlJobids)
        /\ \A k \in 1..Len(dlJobids) :
            HoldsExactly(dlReturn[k], LAMBDA x : DownloadErrorsOf(dlJobids[k], x))

\* the download of two jobs has returned: a file of job B was missing, job
\* A had no failure
C24_Witness ==
    /\ dlMain = "returned"
    /\ dlJobids = <<"A", "B">>
    /\ \E l \in downloadLog : l.jobid = "A" /\ l.type = "file"
    /\ \A l \in downloadLog : l.jobid = "A" => l.reply = "ok"
    /\ dlReturn = <<<<>>, <<"MissingOutputFile">>>>

\* the upload of two jobs has returned: an upload of job B failed, job A
\* had an input that is not a file
C24_UploadWitness ==
    /\ upMain = "returned"
    /\ upReturn = <<<<"InputFileError">>, <<"error">>>>

(***************************************************************************)
(* Properties of the delegation calls with token credentials.              *)
(***************************************************************************)
\* C25: with token credentials createDelegation and refreshDelegation make
\* one request, the new or the renew request with the X-Delegation header,
\* and never sign a CSR, upload a certificate or delete the delegation;
\* createDelegation returns the id the CE gave to the new delegation.
C25_TokenSkipsSigning ==
    token =>
        /\ dgPc \notin {"sign", "upload", "delete"}
        /\ dgFailure = ""
        /\ Len(dgRequests) <= 1
        /\ \A k \in 1..Len(dgRequests) :
            /\ dgRequests[k].action = (IF dgOp = "create" THEN "new" ELSE "renew")
            /\ "X-Delegation" \in dgRequests[k].headers
        /\ dgPc = "returned" =>
            /\ Len(dgRequests) = 1
            /\ dgRequests[1].ok
            /\ dgOp = "create" =>
                (dgReturn = dgRequests[1].id /\ dgReturn \in DelegationIDs)
        /\ dgPc = "raised" => (Len(dgRequests) = 1 /\ ~dgRequests[1].ok)

\* with a token, createDelegation has returned the id d2 of the CE
C25_Witness ==
    /\ token
    /\ dgOp = "create"
    /\ dgPc = "returned"
    /\ dgRequests = <<[action |-> "new", id |-> "d2", ok |-> TRUE,
                       headers |-> {"X-Delegation"}]>>
    /\ dgReturn = "d2"
    /\ delegations["d2"] = "active"

\* the transfers still in the pool
InUploadQueue == {uploadQueue[k] : k \in 1..Len(uploadQueue)}

\* worker w has claimed a transfer and tests the flag of its job in this step
ChecksFlag(w) == upPc[w] = "claimed" /\ upPc'[w] # "claimed"

\* worker w is inside restClient.uploadFile
InFlight(w) == upPc[w] = "uploading"

\* C26: a claimed task whose job's flag is set when the worker tests it is
\* discarded: it is not passed to uploadFile then or later and it is not in
\* the pool any more; an upload in flight is not touched by the steps of the
\* other workers, whatever happens to the flag of its job, and ends only by
\* its own return, recording its own error if it failed.
C26_CooperativeCancellation ==
    /\ [](\A t \in skipLog : t \notin uploadFileLog /\ t \notin InUploadQueue)
    /\ [][\A w \in UpWorkerIds :
            /\ (ChecksFlag(w) /\ cancelEvent[upload[w].jobid]) =>
                    /\ upPc'[w] = "get"
                    /\ upload[w] \in skipLog'
                    /\ uploadFileLog' = uploadFileLog
                    /\ upload[w] \notin InUploadQueue
            /\ (ChecksFlag(w) /\ ~cancelEvent[upload[w].jobid]) =>
                    /\ upPc'[w] = "checked"
                    /\ skipLog' = skipLog
            /\ InFlight(w) =>
                    \/ upPc'[w] = "uploading" /\ upload'[w] = upload[w]
                    \/ /\ upPc'[w] = "get"
                       /\ upErrorQueue' \ upErrorQueue \subseteq
                            {[jobid |-> upload[w].jobid,
                              name |-> upload[w].name, error |-> "error"]}
                       /\ \A v \in UpWorkerIds \ {w} :
                            upPc'[v] = upPc[v] /\ upload'[v] = upload[v]]_vars

\* an upload of job A is in flight while the flag of job A is set and
\* another input of job A has been skipped
C26_Witness ==
    /\ cancelEvent["A"]
    /\ \E w \in UpWorkerIds : upPc[w] = "uploading" /\ upload[w].jobid = "A"
    /\ \E t \in skipLog : t.jobid = "A"

\* the transfers claimed so far: held by a worker, given to uploadFile or
\* skipped
UploadsClaimed ==
    ({upload[w] : w \in UpWorkerIds} \ {NoTransfer})
        \cup uploadFileLog \cup skipLog

\* C27: under fair scheduling every upload worker terminates and
\* uploadJobFiles returns, for every set of validated tasks and every number
\* of workers; no task is claimed a second time, and on return the pool is
\* empty and every validated task was either given to uploadFile, where it
\* succeeded or failed, or skipped as cancelled.
C27_UploadTerminates ==
    /\ <>(upMain = "returned")
    /\ [](upMain = "returned" =>
            /\ \A w \in UpWorkerIds : upPc[w] \in {"done", "off"}
            /\ uploadQueue = <<>>
            /\ \A w \in UpWorkerIds : upload[w] = NoTransfer
            /\ uploadFileLog \cup skipLog = UNION {ValidatedInputs(j) : j \in UpJobs}
            /\ uploadFileLog \cap skipLog = {}
            /\ uploadFailLog \subseteq uploadFileLog)
    /\ [][\A w \in UpWorkerIds :
            (upPc[w] = "get" /\ upPc'[w] = "claimed") =>
                /\ upload'[w] \notin UploadsClaimed
                /\ upload'[w] \notin {uploadQueue'[k] : k \in 1..Len(uploadQueue')}
         ]_vars

\* the largest job with the largest pool: all inputs of job A were uploaded
\* by the workers and the call has returned
C27_Witness ==
    /\ upMain = "returned"
    /\ upWorkers = MaxUpWorkers
    /\ Cardinality(ValidatedInputs("A")) = MaxInputs
    /\ ValidatedInputs("A") \subseteq uploadFileLog
    /\ uploadFailLog = {}

\* a transfer worker of the call has been started and has not returned
UploadWorkerRunning == \E w \in UpWorkerIds : upPc[w] \notin {"done", "off"}
DownloadWorkerRunning == \E w \in WorkerIds : pc[w] \notin {"done", "off"}

\* C28: as long as a transfer worker of uploadJobFiles or downloadJobFiles
\* runs, the result table of the call is the table the seeding left and the
\* calling thread has neither merged into it nor read it for the return
\* value; the steps taken meanwhile only add to the error queue; the table
\* is written only by the merge, with every worker returned.
C28_TableOutsideWorkers ==
    /\ [](UploadWorkerRunning =>
            /\ upMain = "wait"
            /\ upReturn = <<>>
            /\ upResultDict = [j \in UpJobs |->
                    IF InputFileError(jobInputs[j])
                    THEN <<"InputFileError">> ELSE <<>>])
    /\ [](DownloadWorkerRunning =>
            /\ dlMain = "wait"
            /\ dlReturn = <<>>
            /\ dlResultDict = SeedResults(dlJobids, diagnoseFiles))
    /\ [][/\ UploadWorkerRunning =>
                /\ upErrorQueue \subseteq upErrorQueue'
                /\ upResultDict' = upResultDict
          /\ DownloadWorkerRunning =>
                /\ errorQueue \subseteq errorQueue'
                /\ dlResultDict' = dlResultDict
          /\ upResultDict' # upResultDict =>
                upMain' = "merge" /\ ~UploadWorkerRunning'
          /\ dlResultDict' # dlResultDict =>
                dlMain' = "merge" /\ ~DownloadWorkerRunning'
         ]_vars

\* the merge of downloadJobFiles has written an error of job A into a table
\* in which the seeding had recorded the error of job B, after all workers
\* of the largest pool returned
C28_Witness ==
    /\ dlMain = "merge"
    /\ numWorkers = MaxWorkers
    /\ ~DownloadWorkerRunning
    /\ dlResultDict["B"] = <<"ARCError">>
    /\ Len(dlResultDict["A"]) > 0

\* the indexes below n of the descriptions that were parsed, matched and
\* unparsed, in the order of descs
SubmittableBelow(n) == SelectSeq([i \in 1..(n - 1) |-> i], Submittable)

\* entry e of the result table is result r of createJobs, or the
\* InputUploadError that replaced it and keeps its job id and state
StoredFrom(e, r) ==
    \/ e = r
    \/ /\ r.kind = "job"
       /\ \E errors \in UploadErrorLists \ {<<>>} :
            e = InputUploadError(r.jobid, r.state, errors)

\* C29: the bulk document holds exactly the descriptions that were parsed,
\* matched and unparsed, in the order of descs, and it is sent whenever
\* there is such a description; the k-th result of createJobs is stored,
\* and returned, at the index of the k-th description of the document; a
\* description rejected before keeps its own error at its own index.
C29_BulkKeepsIndexes ==
    /\ bulkdesc = SubmittableBelow(sjI)
    /\ tosubmit = bulkdesc
    /\ Cardinality(CreateCalls) <= 1
    /\ (sjPc \in {"upload", "returned"} /\ SubmittableBelow(Len(descs) + 1) # <<>>)
            => CreateCalls # {}
    /\ \A c \in CreateCalls :
        /\ sjCalls[c].args = SubmittableBelow(Len(descs) + 1)
        /\ \A k \in 1..Len(sjCalls[c].result) :
            /\ StoredFrom(resultDict[sjCalls[c].args[k]], sjCalls[c].result[k])
            /\ sjPc = "returned" =>
                StoredFrom(sjReturn[sjCalls[c].args[k]], sjCalls[c].result[k])
    /\ \A i \in 1..(sjI - 1) :
        ~Submittable(i) =>
            /\ i \in DOMAIN resultDict
            /\ resultDict[i].kind = "errors"
            /\ OutcomeOf(resultDict[i], i)
            /\ sjPc = "returned" => sjReturn[i] = resultDict[i]

\* of two descriptions the first fails to match; the bulk document holds the
\* second description only, and the first result of the CE, a new job, is
\* returned as the second entry
C29_Witness ==
    /\ sjPc = "returned"
    /\ Len(descs) = 2
    /\ descs[1].parse /\ matchDescs /\ ~descs[1].match
    /\ Submittable(2)
    /\ \E c \in CreateCalls :
        /\ sjCalls[c].args = <<2>>
        /\ sjCalls[c].result = <<Job(JobIdOf(2), "ACCEPTING")>>
    /\ sjReturn[1] = Errors(<<"MatchmakingError">>)
    /\ sjReturn[2] = Job(JobIdOf(2), "ACCEPTING")

\* a step of TransferQueue.put
PutStep == putLog' # putLog \/ Len(queue') > Len(queue)

\* C30: a put made while workers are blocked in the barrier leaves the
\* barrier resetting; the barrier stays so until every blocked worker has
\* left it, and a worker that wakes up in a resetting barrier goes back to
\* the test of the queue; a blocked worker is told that the queue is empty
\* only when the queue is empty and no worker can put any more; and under
\* fair scheduling every transfer that was put is eventually claimed.
C30_PutResetsBarrier ==
    /\ [][/\ (PutStep /\ bcount > 0) => bstate' = -1
          /\ PutStep => bcount < numWorkers /\ bstate' # 1
          /\ (bstate = -1 /\ bstate' # -1) => bcount' = 0
          /\ \A w \in WorkerIds :
                (pc[w] = "waiting" /\ bstate = -1) =>
                    pc'[w] \in {"waiting", "get"}
          /\ \A w \in WorkerIds :
                (pc[w] = "waiting" /\ pc'[w] = "done") =>
                    /\ ~PutStep
                    /\ bstate = 1
                    /\ queue = <<>>
                    /\ \A v \in WorkerIds : ~Processing(v)
         ]_vars
    /\ <>[](putLog = DOMAIN claimLog)

\* a worker of the largest pool is blocked in the barrier, which the put of
\* a worker that is adding the transfers of a listing has just reset; the
\* transfer that was put is in the queue
C30_Witness ==
    /\ numWorkers = MaxWorkers
    /\ bstate = -1
    /\ bcount > 0
    /\ queue # <<>>
    /\ \E w \in Workers : pc[w] = "waiting"
    /\ \E v \in Workers : pc[v] = "adding"

(***************************************************************************)
(* Properties of the failures of the download workers.                     *)
(***************************************************************************)
\* C31: a download worker whose claimed task fails (the download of a file,
\* of a diagnose file or of a listing, or the handling of a listing that is
\* no JSON object) records one error for the job of the task and goes back
\* to get the next task; a worker leaves its loop only from the barrier of
\* the queue, and its only positions are those of the loop.
C31_FailuresStayInLoop ==
    /\ [](\A w \in WorkerIds :
            pc[w] \in {"off", "get", "claimed", "adding", "barrier",
                       "waiting", "done"})
    /\ [][\A w \in WorkerIds :
            /\ (pc[w] = "claimed" /\ failures' > failures
                    /\ transfer'[w] # transfer[w]) =>
                /\ pc'[w] = "get"
                /\ \E e \in errorQueue' \ errorQueue :
                        e.jobid = transfer[w].jobid
            /\ (pc[w] # "done" /\ pc'[w] = "done") =>
                pc[w] \in {"barrier", "waiting"}
         ]_vars

\* the listing of a sub-directory was no JSON object: the error is recorded
\* and all workers of the largest pool have left their loops through the
\* barrier
C31_Witness ==
    /\ numWorkers = MaxWorkers
    /\ \E l \in downloadLog :
            l.type = "listing" /\ l.reply = "malformed" /\ l.name # <<>>
    /\ \E e \in errorQueue : e.error = "Exception"
    /\ \A w \in Workers : pc[w] = "done"

\* worker w fails to fetch the listing it has claimed
ListingFails(w) ==
    /\ pc[w] = "claimed"
    /\ transfer[w].type = "listing"
    /\ pc'[w] # "claimed"
    /\ [jobid |-> transfer[w].jobid, name |-> transfer[w].name,
        type |-> "listing", reply |-> "error"] \in downloadLog' \ downloadLog

\* the directory a session relative name lies in
ParentOf(name) == SubSeq(name, 1, Len(name) - 1)

\* the transfers that were handled: downloaded, or their download failed
Handled ==
    {Transfer(l.jobid, l.name, l.type) : l \in downloadLog}

QueuedOf(j, type) ==
    {k \in 1..Len(queue) : queue[k].jobid = j /\ queue[k].type = type}

\* the jobs of the call
Requested == {dlJobids[k] : k \in 1..Len(dlJobids)}

\* C33: before any worker has claimed a transfer, the queue holds for every
\* requested job whose diagnose list has only names of DIAGNOSE_FILES one
\* diagnose transfer per name of the list and, after them, exactly one
\* listing of the session root, and the job has no error; a job whose list
\* has another name has exactly one error, ARCError, and no transfer at
\* all, then and later.
C33_Seeding ==
    \A j \in Requested :
        IF DiagnoseError(diagnoseFiles[j])
        THEN /\ \A t \in putLog : t.jobid # j
             /\ \A k \in 1..Len(queue) : queue[k].jobid # j
             /\ Count(dlResultDict[j], "ARCError") = 1
             /\ dlMain = "wait" => dlResultDict[j] = <<"ARCError">>
        ELSE /\ Count(dlResultDict[j], "ARCError") = 0
             /\ claimLog = <<>> =>
                /\ dlResultDict[j] = <<>>
                /\ Cardinality(QueuedOf(j, "diagnose")) = Len(diagnoseFiles[j])
                /\ \A i \in 1..Len(diagnoseFiles[j]) :
                      \E k \in QueuedOf(j, "diagnose") :
                          queue[k].name = <<diagnoseFiles[j][i]>>
                /\ Cardinality(QueuedOf(j, "listing")) = 1
                /\ Cardinality(QueuedOf(j, "file")) = 0
                /\ \A k \in QueuedOf(j, "listing") :
                      /\ queue[k].name = <<>>
                      /\ \A d \in QueuedOf(j, "diagnose") : d < k

\* job A was given the diagnose list [g1, x1] and job B the list [g1]: the
\* queue holds the diagnose transfer and the listing of job B and nothing of
\* job A, which has its error
C33_Witness ==
    /\ dlJobids = <<"A", "B">>
    /\ diagnoseFiles["A"] = <<<<"g", 1>>, <<"x", 1>>>>
    /\ diagnoseFiles["B"] = <<<<"g", 1>>>>
    /\ claimLog = <<>>
    /\ queue = <<Transfer("B", <<<<"g", 1>>>>, "diagnose"),
                 Transfer("B", <<>>, "listing")>>
    /\ dlResultDict["A"] = <<"ARCError">>
    /\ dlResultDict["B"] = <<>>

(***************************************************************************)
(* Properties of the files the output filters select.                      *)
(***************************************************************************)
\* the session relative names of the files of the remote session directory
RemoteFiles ==
    {<<<<"f", i>>>> : i \in 1..remote.rf}
        \cup {<<<<"d", j>>, <<"f", i>>>> : j \in 1..remote.sd, i \in 1..remote.sf}

\* name equals a pattern of the list, or lies under a pattern of the list
\* that ends in "/"
Selected(filters, name) ==
    \E k \in 1..Len(filters) :
        \/ (~filters[k].slash /\ filters[k].path = name)
        \/ (filters[k].slash /\ StartsWith(name, filters[k]))

\* the download of a transfer was started
Downloaded(t) ==
    \E l \in downloadLog :
        l.jobid = t.jobid /\ l.name = t.name /\ l.type = t.type

\* C34: with output filters for the job, once the workers have terminated
\* and no listing has failed, every remote file whose name equals a pattern
\* or lies under a pattern ending in "/" has got a file transfer and was
\* downloaded, also a file of a sub-directory that a pattern names by its
\* full path.
C34_SelectedFilesDownloaded ==
    (/\ \A w \in Workers : pc[w] = "done"
     /\ \A l \in downloadLog : l.type = "listing" => l.reply = "ok")
        => \A name \in RemoteFiles :
                Selected(OutputFilters("A"), name) =>
                    /\ Transfer("A", name, "file") \in putLog
                    /\ Downloaded(Transfer("A", name, "file"))

\* the pattern "/"
RootPattern == [path |-> <<>>, slash |-> TRUE]

\* the names a listing of the remote session directory can give to a file
\* and to a sub-directory
FileNames == RemoteFiles
DirNames == {<<<<"d", j>>>> : j \in 1..remote.sd}

\* what is put for a job with the filter list ["/"]: the listing of the
\* session root and the files directly in it
RootTransfers ==
    {Transfer("A", <<>>, "listing")}
        \cup {Transfer("A", <<<<"f", i>>>>, "file") : i \in 1..remote.rf}

OwnHeaders(call) ==
    SetHeaders(IF call.arg = "default" THEN NoHeaders
               ELSE [NoHeaders EXCEPT !.ContentType = "application/xml"],
               call.fn, call.token, call.jsonData)

\* C36: the headers sent with a request are those of the call's own
\* arguments and of the token of the client that makes the call; no
\* Authorization, Accept or Content-Type of an earlier request, of this or
\* of another client, is among them.
C36_HeaderIsolation ==
    hdSent # NoRequest => hdSent.headers = OwnHeaders(hdSent)

(***************************************************************************)
(* Specifications.                                                         *)
(***************************************************************************)
DlSpecInit ==
    DlInit /\ UpIdle /\ SjIdle /\ DgIdle /\ MmIdle
        /\ GcIdle /\ MjIdle /\ HrIdle

DlNext ==
    \/ \E w \in WorkerIds : WorkerStep(w)
    \/ DownloadMerge
    \/ DownloadReturn

\* downloadJobFiles
Spec == DlSpecInit /\ [][DlNext]_vars

\* every worker thread is scheduled as long as it can take a step
FairSpec == Spec /\ \A w \in WorkerIds : WF_vars(WorkerStep(w))

UpSpecInit ==
    UpInit /\ DlIdle /\ SjIdle /\ DgIdle /\ MmIdle
        /\ GcIdle /\ MjIdle /\ HrIdle

UpNext ==
    \/ \E w \in UpWorkerIds : UpWorkerStep(w)
    \/ UploadMerge
    \/ UploadReturn

\* uploadJobFiles
UploadSpec == UpSpecInit /\ [][UpNext]_vars

UpValidatedSpecInit ==
    UpValidatedInit /\ DlIdle /\ SjIdle /\ DgIdle /\ MmIdle
        /\ GcIdle /\ MjIdle /\ HrIdle

\* uploadJobFiles for validated inputs; every worker thread and the calling
\* thread are scheduled as long as they can take a step
FairUploadSpec ==
    /\ UpValidatedSpecInit
    /\ [][UpNext]_vars
    /\ \A w \in UpWorkerIds : WF_vars(UpWorkerStep(w))
    /\ WF_vars(UploadMerge \/ UploadReturn)

SjSpecInit ==
    SjInit /\ DlIdle /\ UpIdle /\ DgIdle /\ MmIdle
        /\ GcIdle /\ MjIdle /\ HrIdle

SjNext ==
    \/ SjStart
    \/ SjProcessDesc
    \/ SjReturnUnsubmitted
    \/ SjCreateJobs
    \/ SjUpload

\* submitJobs
SubmitSpec == SjSpecInit /\ [][SjNext]_vars

DgSpecInit ==
    DgInit /\ DlIdle /\ UpIdle /\ SjIdle /\ MmIdle
        /\ GcIdle /\ MjIdle /\ HrIdle

DgNext ==
    \/ DgCall
    \/ NewDelegation
    \/ RenewDelegation
    \/ SignCSR
    \/ UploadCertDelegation
    \/ DeleteDelegation

\* createDelegation and refreshDelegation
DelegationSpec == DgSpecInit /\ [][DgNext]_vars

MmSpecInit ==
    MmInit /\ DlIdle /\ UpIdle /\ SjIdle /\ DgIdle
        /\ GcIdle /\ MjIdle /\ HrIdle

MmNext == MatchJobCall

\* matchJob
MatchSpec == MmSpecInit /\ [][MmNext]_vars

GcSpecInit ==
    GcInit /\ DlIdle /\ UpIdle /\ SjIdle /\ DgIdle
        /\ MmIdle /\ MjIdle /\ HrIdle

GcNext == GetAPIVersions \/ SelectVersion

\* getClient
ClientSpec == GcSpecInit /\ [][GcNext]_vars

MjSpecInit ==
    MjInit /\ DlIdle /\ UpIdle /\ SjIdle /\ DgIdle
        /\ MmIdle /\ GcIdle /\ HrIdle

MjNext == ManageJobs \/ ManageResults

\* getJobsInfo, getJobsStatus, killJobs, cleanJobs, restartJobs,
\* getJobsDelegations
ManageSpec == MjSpecInit /\ [][MjNext]_vars

DlFilterSpecInit ==
    DlFilterInit /\ UpIdle /\ SjIdle /\ DgIdle /\ MmIdle
        /\ GcIdle /\ MjIdle /\ HrIdle

\* downloadJobFiles with output filters
FilterSpec == DlFilterSpecInit /\ [][DlNext]_vars

DlJobsSpecInit ==
    DlJobsInit /\ UpIdle /\ SjIdle /\ DgIdle /\ MmIdle
        /\ GcIdle /\ MjIdle /\ HrIdle

TrSpecInit == UpSpecInit \/ DlJobsSpecInit

TrNext == UpNext \/ DlNext

\* uploadJobFiles, or downloadJobFiles for two jobs
TransferSpec == TrSpecInit /\ [][TrNext]_vars

\* downloadJobFiles for two jobs without diagnose files
DlPlainJobsSpecInit ==
    DlJobsSpecInit /\ \A j \in DlJobs : diagnoseFiles[j] = <<>>

\* every worker thread is scheduled as long as it can take a step
FairJobsSpec ==
    /\ DlPlainJobsSpecInit
    /\ [][DlNext]_vars
    /\ \A w \in WorkerIds : WF_vars(WorkerStep(w))

HrSpecInit ==
    HrInit /\ DlIdle /\ UpIdle /\ SjIdle /\ DgIdle
        /\ MmIdle /\ GcIdle /\ MjIdle

HrNext == HrRequest \/ HrRetry

\* HTTPClient.request
RequestSpec == HrSpecInit /\ [][HrNext]_vars

HdSpecInit ==
    HrIdle /\ DlIdle /\ UpIdle /\ SjIdle /\ DgIdle
        /\ MmIdle /\ GcIdle /\ MjIdle

HdNext == HdCall

\* the requests of several clients of one process, one after the other
HeaderSpec == HdSpecInit /\ [][HdNext]_vars

====
